---- MODULE Spec2Model ----
(***************************************************************************)
(* A model of the classification-and-deletion core of the Alto cleaner:    *)
(* the path classifier (mcp/file_index.rs), the audit store                *)
(* (mcp/context_store.rs) and the two-phase delete commands of lib.rs.     *)
(*                                                                         *)
(* Path strings are sequences of one-character strings, so that            *)
(* to_lowercase, starts_with, contains, ends_with and find are computed    *)
(* the way the code computes them.                                         *)
(***************************************************************************)
EXTENDS Integers, Sequences, FiniteSets, TLC

VARIABLES
    platform,   \* the build target: which #[cfg(target_os)] branches exist
    present,    \* filesystem: the set of paths that exist
    locked,     \* filesystem: existing paths the trash mechanism cannot move
    store,      \* the audit store file ~/.alto/context.json: absent, or a document
    now,        \* the wall clock, advanced by every command
    last,       \* the last command: its input, what it did and what it returned
    wiped,      \* filesystem: the files whose content the shredder has overwritten
    helper,     \* the privileged daemon: "down", or "up" and listening on its socket
    sent,       \* what the running operation did so far, in order: removals tried,
                \* the installation tried, commands sent to the daemon
    task        \* the running operation of the helper client: where it is, its locals

vars == <<platform, present, locked, store, now, last, wiped, helper, sent, task>>

\* no operation of the helper client is running
NoTask ==
    [op |-> "idle", pc |-> "done", path |-> <<>>, leftovers |-> <<>>, i |-> 0,
     ensure |-> "none", ret |-> [tag |-> "none"]]

\* the state the helper client and the daemon own
ipc == <<helper, sent, task>>
IpcIdle == helper = "down" /\ sent = <<>> /\ task = NoTask

\* the state the delete commands and the classifier never touch
aside == <<wiped, helper, sent, task>>
AsideInit == wiped = {} /\ IpcIdle

----------------------------------------------------------------------------
(* Strings                                                                 *)

UpperChars == <<"A","B","C","D","E","F","G","H","I","J","K","L","M",
                "N","O","P","Q","R","S","T","U","V","W","X","Y","Z">>
LowerChars == <<"a","b","c","d","e","f","g","h","i","j","k","l","m",
                "n","o","p","q","r","s","t","u","v","w","x","y","z">>

ToLowerChar(c) ==
    IF \E i \in 1..Len(UpperChars) : UpperChars[i] = c
    THEN LowerChars[CHOOSE i \in 1..Len(UpperChars) : UpperChars[i] = c]
    ELSE c

\* the bug of matching the path as given, without lower-casing it
to_lowercase_identity(s) == s

\* str::to_lowercase
to_lowercase(s) == [i \in 1..Len(s) |-> ToLowerChar(s[i])]

\* str::starts_with
starts_with(s, p) == Len(p) <= Len(s) /\ SubSeq(s, 1, Len(p)) = p

\* str::ends_with
ends_with(s, p) == Len(p) <= Len(s) /\ SubSeq(s, Len(s) - Len(p) + 1, Len(s)) = p

\* the positions (1-based) at which p occurs in s
Occurrences(s, p) ==
    {i \in 1..(Len(s) - Len(p) + 1) : SubSeq(s, i, i + Len(p) - 1) = p}

\* str::contains
contains(s, p) == Occurrences(s, p) # {}

\* str::find: the first position of p in s, 0 for None
find(s, p) ==
    IF Occurrences(s, p) = {} THEN 0
    ELSE CHOOSE i \in Occurrences(s, p) : \A j \in Occurrences(s, p) : i <= j

\* str::trim_start_matches(sep)
RECURSIVE trim_start_matches(_, _)
trim_start_matches(s, sep) ==
    IF s # <<>> /\ Head(s) = sep THEN trim_start_matches(Tail(s), sep) ELSE s

\* str::split(sep).next(): the text before the first sep (all of s without one)
RECURSIVE split_first(_, _)
split_first(s, sep) ==
    IF s = <<>> \/ Head(s) = sep THEN <<>>
    ELSE <<Head(s)>> \o split_first(Tail(s), sep)

None == "None"

----------------------------------------------------------------------------
(* The classifier: mcp/file_index.rs                                       *)

Platforms == {"macos", "windows"}

FileCategory ==
    {"Cache", "Log", "Temp", "UserData", "SystemCritical", "AppSupport", "Unknown"}

\* "/system", "/usr", "/bin", "/sbin", "/private/var/db", "/library/apple",
\* "/library/coreservices"

system_critical_prefixes_macos ==
    <<
       <<"/","s","y","s","t","e","m">>,
       <<"/","u","s","r">>,
       <<"/","b","i","n">>,
       <<"/","s","b","i","n">>,
       <<"/","p","r","i","v","a","t","e","/","v","a","r","/","d","b">>,
       <<"/","l","i","b","r","a","r","y","/","a","p","p","l","e">>,
       <<"/","l","i","b","r","a","r","y","/","c","o","r","e","s","e","r","v","i","c","e","s">>
    >>

\* "c:\windows", "c:\boot", "c:\recovery", "c:\system volume information",
\* "c:\program files\common files"

system_critical_prefixes_windows ==
    <<
       <<"c",":","\\","w","i","n","d","o","w","s">>,
       <<"c",":","\\","b","o","o","t">>,
       <<"c",":","\\","r","e","c","o","v","e","r","y">>,
       <<"c",":","\\","s","y","s","t","e","m"," ","v","o","l","u","m","e"," ","i","n","f","o","r","m","a","t","i","o","n">>,
       <<"c",":","\\","p","r","o","g","r","a","m"," ","f","i","l","e","s","\\","c","o","m","m","o","n"," ","f","i","l","e","s">>
    >>

system_critical_prefixes(pl) ==
    IF pl = "macos" THEN system_critical_prefixes_macos
    ELSE system_critical_prefixes_windows

\* the bug of a pattern list that lost its last entry, "google drive"
user_data_patterns_short ==
    <<
       <<"d","o","c","u","m","e","n","t","s">>,
       <<"d","e","s","k","t","o","p">>,
       <<"d","o","w","n","l","o","a","d","s">>,
       <<"p","i","c","t","u","r","e","s">>,
       <<"m","o","v","i","e","s">>,
       <<"m","u","s","i","c">>,
       <<"d","r","o","p","b","o","x">>,
       <<"i","c","l","o","u","d">>,
       <<"o","n","e","d","r","i","v","e">>
    >>

\* "documents", "desktop", "downloads", "pictures", "movies", "music",
\* "dropbox", "icloud", "onedrive", "google drive"

user_data_patterns ==
    <<
       <<"d","o","c","u","m","e","n","t","s">>,
       <<"d","e","s","k","t","o","p">>,
       <<"d","o","w","n","l","o","a","d","s">>,
       <<"p","i","c","t","u","r","e","s">>,
       <<"m","o","v","i","e","s">>,
       <<"m","u","s","i","c">>,
       <<"d","r","o","p","b","o","x">>,
       <<"i","c","l","o","u","d">>,
       <<"o","n","e","d","r","i","v","e">>,
       <<"g","o","o","g","l","e"," ","d","r","i","v","e">>
    >>

\* extract_app_owner's patterns: "application support", "caches", "logs",
\* "appdata\local", "appdata\roaming"

owner_patterns ==
    <<
       <<"a","p","p","l","i","c","a","t","i","o","n"," ","s","u","p","p","o","r","t">>,
       <<"c","a","c","h","e","s">>,
       <<"l","o","g","s">>,
       <<"a","p","p","d","a","t","a","\\","l","o","c","a","l">>,
       <<"a","p","p","d","a","t","a","\\","r","o","a","m","i","n","g">>
    >>

s_cache == <<"c","a","c","h","e">>
s_temp == <<"t","e","m","p">>
s_localstorage == <<"l","o","c","a","l","s","t","o","r","a","g","e">>
s_logs == <<"l","o","g","s">>
s_dot_log == <<".","l","o","g">>
s_tmp_dir == <<"/","t","m","p","/">>
s_var_folders == <<"/","v","a","r","/","f","o","l","d","e","r","s","/">>
s_bs_temp_bs == <<"\\","t","e","m","p","\\">>
s_bs_tmp_bs == <<"\\","t","m","p","\\">>
s_appdata_local_temp == <<"\\","a","p","p","d","a","t","a","\\","l","o","c","a","l","\\","t","e","m","p">>
s_application_support == <<"a","p","p","l","i","c","a","t","i","o","n"," ","s","u","p","p","o","r","t">>
s_appdata == <<"a","p","p","d","a","t","a">>

\* extract_app_owner's loop, from the i-th pattern on
RECURSIVE owner_from(_, _, _)
owner_from(path, sep, i) ==
    IF i > Len(owner_patterns) THEN None
    ELSE LET pattern == owner_patterns[i]
             idx == find(path, pattern)
             rest == SubSeq(path, idx + Len(pattern), Len(path))
             component == split_first(trim_start_matches(rest, sep), sep)
         IN  IF idx # 0 /\ component # <<>> /\ Len(component) > 3
             THEN component
             ELSE owner_from(path, sep, i + 1)

extract_app_owner(path) ==
    LET sep == IF contains(path, <<"\\">>) THEN "\\" ELSE "/"
    IN  owner_from(path, sep, 1)

\* the bug of looking for the temp root anywhere in the path
is_temp_contains(pl, path_lower) ==
    IF pl = "macos"
    THEN contains(path_lower, s_tmp_dir) \/ contains(path_lower, s_var_folders)
    ELSE \/ contains(path_lower, s_bs_temp_bs)
         \/ contains(path_lower, s_bs_tmp_bs)
         \/ contains(path_lower, s_appdata_local_temp)

\* the temp roots of the build: #[cfg(target_os)] is_temp
is_temp(pl, path_lower) ==
    IF pl = "macos"
    THEN starts_with(path_lower, s_tmp_dir) \/ contains(path_lower, s_var_folders)
    ELSE \/ contains(path_lower, s_bs_temp_bs)
         \/ contains(path_lower, s_bs_tmp_bs)
         \/ contains(path_lower, s_appdata_local_temp)

app_support_pattern(pl) ==
    IF pl = "macos" THEN s_application_support ELSE s_appdata

\* the bug of an AppSupport branch that returns is_safe_to_delete: true
index_file_app_support_safe(pl, size, path) ==
    LET path_lower == to_lowercase(path)
    IN  IF \E i \in 1..Len(system_critical_prefixes(pl)) :
               starts_with(path_lower, system_critical_prefixes(pl)[i])
        THEN [path |-> path, size_bytes |-> size, category |-> "SystemCritical",
              app_owner |-> None, is_safe_to_delete |-> FALSE,
              reason |-> "System critical path: protected by the operating system."]
        ELSE IF \E i \in 1..Len(user_data_patterns) :
                    /\ contains(path_lower, user_data_patterns[i])
                    /\ ~contains(path_lower, s_cache)
                    /\ ~contains(path_lower, s_temp)
        THEN [path |-> path, size_bytes |-> size, category |-> "UserData",
              app_owner |-> None, is_safe_to_delete |-> FALSE,
              reason |-> "User data directory - Alto will never touch this."]
        ELSE IF contains(path_lower, s_cache) \/ contains(path_lower, s_localstorage)
        THEN [path |-> path, size_bytes |-> size, category |-> "Cache",
              app_owner |-> extract_app_owner(path_lower), is_safe_to_delete |-> TRUE,
              reason |-> "Application cache. Safe to clear."]
        ELSE IF contains(path_lower, s_logs) \/ ends_with(path_lower, s_dot_log)
        THEN [path |-> path, size_bytes |-> size, category |-> "Log",
              app_owner |-> extract_app_owner(path_lower), is_safe_to_delete |-> TRUE,
              reason |-> "Log file. Safe to delete."]
        ELSE IF is_temp(pl, path_lower)
        THEN [path |-> path, size_bytes |-> size, category |-> "Temp",
              app_owner |-> None, is_safe_to_delete |-> TRUE,
              reason |-> "Temporary file. Safe to delete."]
        ELSE IF contains(path_lower, app_support_pattern(pl))
        THEN [path |-> path, size_bytes |-> size, category |-> "AppSupport",
              app_owner |-> extract_app_owner(path_lower), is_safe_to_delete |-> TRUE,
              reason |-> "App data. Deleting may break the app."]
        ELSE [path |-> path, size_bytes |-> size, category |-> "Unknown",
              app_owner |-> None, is_safe_to_delete |-> FALSE,
              reason |-> "Unknown file type. Manual review recommended."]

\* index_file on build pl; size is what get_size read for the path.  The
\* reason is the branch's text, without the owner name format! adds to it.
index_file(pl, size, path) ==
    LET path_lower == to_lowercase(path)
    IN  IF \E i \in 1..Len(system_critical_prefixes(pl)) :
               starts_with(path_lower, system_critical_prefixes(pl)[i])
        THEN [path |-> path, size_bytes |-> size, category |-> "SystemCritical",
              app_owner |-> None, is_safe_to_delete |-> FALSE,
              reason |-> "System critical path: protected by the operating system."]
        ELSE IF \E i \in 1..Len(user_data_patterns) :
                    /\ contains(path_lower, user_data_patterns[i])
                    /\ ~contains(path_lower, s_cache)
                    /\ ~contains(path_lower, s_temp)
        THEN [path |-> path, size_bytes |-> size, category |-> "UserData",
              app_owner |-> None, is_safe_to_delete |-> FALSE,
              reason |-> "User data directory - Alto will never touch this."]
        ELSE IF contains(path_lower, s_cache) \/ contains(path_lower, s_localstorage)
        THEN [path |-> path, size_bytes |-> size, category |-> "Cache",
              app_owner |-> extract_app_owner(path_lower), is_safe_to_delete |-> TRUE,
              reason |-> "Application cache. Safe to clear."]
        ELSE IF contains(path_lower, s_logs) \/ ends_with(path_lower, s_dot_log)
        THEN [path |-> path, size_bytes |-> size, category |-> "Log",
              app_owner |-> extract_app_owner(path_lower), is_safe_to_delete |-> TRUE,
              reason |-> "Log file. Safe to delete."]
        ELSE IF is_temp(pl, path_lower)
        THEN [path |-> path, size_bytes |-> size, category |-> "Temp",
              app_owner |-> None, is_safe_to_delete |-> TRUE,
              reason |-> "Temporary file. Safe to delete."]
        ELSE IF contains(path_lower, app_support_pattern(pl))
        THEN [path |-> path, size_bytes |-> size, category |-> "AppSupport",
              app_owner |-> extract_app_owner(path_lower), is_safe_to_delete |-> FALSE,
              reason |-> "App data. Deleting may break the app."]
        ELSE [path |-> path, size_bytes |-> size, category |-> "Unknown",
              app_owner |-> None, is_safe_to_delete |-> FALSE,
              reason |-> "Unknown file type. Manual review recommended."]

----------------------------------------------------------------------------
(* The filesystem the commands act on                                      *)

\* /Users/a/Library/Caches/com.app/data.bin
p_cache ==
    <<"/","U","s","e","r","s","/","a","/","L","i","b","r","a","r","y","/","C","a","c","h","e","s","/","c","o","m",".","a","p","p","/","d","a","t","a",".","b","i","n">>

\* /Users/a/Library/Caches/com.app/Cookies
p_cookies ==
    <<"/","U","s","e","r","s","/","a","/","L","i","b","r","a","r","y","/","C","a","c","h","e","s","/","c","o","m",".","a","p","p","/","C","o","o","k","i","e","s">>

\* /Users/a/Library/Logs
p_logs ==
    <<"/","U","s","e","r","s","/","a","/","L","i","b","r","a","r","y","/","L","o","g","s">>

\* /Users/a/Library/Logs/documents.txt
p_logs_doc ==
    <<"/","U","s","e","r","s","/","a","/","L","i","b","r","a","r","y","/","L","o","g","s","/","d","o","c","u","m","e","n","t","s",".","t","x","t">>

\* /Users/a/Documents/report.doc
p_report ==
    <<"/","U","s","e","r","s","/","a","/","D","o","c","u","m","e","n","t","s","/","r","e","p","o","r","t",".","d","o","c">>

\* /System/Library/Caches/x
p_syscache ==
    <<"/","S","y","s","t","e","m","/","L","i","b","r","a","r","y","/","C","a","c","h","e","s","/","x">>

\* the paths of the modelled disk, and the length (metadata len) of each
Universe == <<p_cache, p_cookies, p_logs, p_logs_doc, p_report, p_syscache>>
UniverseLen == <<1, 2, 4, 8, 16, 32>>
UniverseSet == {Universe[i] : i \in 1..Len(Universe)}

FileLen(p) ==
    IF p \in UniverseSet
    THEN UniverseLen[CHOOSE i \in 1..Len(Universe) : Universe[i] = p]
    ELSE 1

\* std::fs::metadata(p).map(|m| m.len()).unwrap_or(0)
get_size(fs, p) == IF p \in fs THEN FileLen(p) ELSE 0

\* p and everything below it, when p is a directory
Tree(p) == {q \in UniverseSet : q = p \/ starts_with(q, p \o <<"/">>)}

\* the verdicts of the modelled disk's paths, computed once per build
IndexCache ==
    [pl \in Platforms |-> [p \in UniverseSet |-> index_file(pl, 0, p)]]

\* the bug of classifying a path that is not on disk as Unknown
index_file_at_on_disk(pl, fs, path) ==
    IF path \in fs
    THEN index_file(pl, get_size(fs, path), path)
    ELSE [index_file(pl, 0, path) EXCEPT !.category = "Unknown",
                                         !.is_safe_to_delete = FALSE]

\* index_file(path) as the commands call it: get_size reads the filesystem
index_file_at(pl, fs, path) ==
    IF path \in UniverseSet
    THEN [IndexCache[pl][path] EXCEPT !.size_bytes = get_size(fs, path)]
    ELSE index_file(pl, get_size(fs, path), path)

\* the bug of returning the classifications in the reverse of the input order
index_files_reversed(pl, fs, paths) ==
    [i \in 1..Len(paths) |-> index_file_at(pl, fs, paths[Len(paths) + 1 - i])]

index_files(pl, fs, paths) ==
    [i \in 1..Len(paths) |-> index_file_at(pl, fs, paths[i])]

\* trash::delete_all: moves the paths to the trash in order and stops with an
\* error at the first one it cannot move (missing, or not movable)
RECURSIVE delete_all(_, _, _)
delete_all(fs, lk, paths) ==
    IF paths = <<>> THEN [ok |-> TRUE, fs |-> fs]
    ELSE IF Head(paths) \in fs /\ Head(paths) \notin lk
         THEN delete_all(fs \ Tree(Head(paths)), lk, Tail(paths))
         ELSE [ok |-> FALSE, fs |-> fs]

----------------------------------------------------------------------------
(* The audit store: mcp/context_store.rs                                   *)

MaxDeletionHistory == 100
MaxSystemEvents == 200

\* ContextStore::default()
ContextStoreDefault ==
    [last_scan_timestamp |-> None,
     deletion_history |-> <<>>,
     system_events |-> <<>>,
     user_preferences |-> [always_skip_patterns |-> <<>>, auto_confirm_caches |-> FALSE]]

\* the store file before anything was saved, and a saved document
NoFile == [exists |-> FALSE]
Saved(ctx) == [exists |-> TRUE, doc |-> ctx]

\* ContextStore::load: the saved document, the default one without a file
load(file) == IF file.exists THEN file.doc ELSE ContextStoreDefault

\* ContextStore::save: the file it leaves
save(ctx) == Saved(ctx)

\* the bug of keeping the oldest cap records where the newest are to be kept
DrainTo_oldest(s, cap) ==
    IF Len(s) > cap THEN SubSeq(s, 1, cap) ELSE s

\* Vec::drain(0..len - cap) when len > cap
DrainTo(s, cap) ==
    IF Len(s) > cap THEN SubSeq(s, Len(s) - cap + 1, Len(s)) ELSE s

\* ContextStore::record_deletion: the file it leaves
record_deletion(ctx, paths, bytes_freed, timestamp) ==
    save([ctx EXCEPT !.deletion_history =
            DrainTo(Append(@, [timestamp |-> timestamp,
                               paths_deleted |-> paths,
                               total_bytes_freed |-> bytes_freed]),
                    MaxDeletionHistory)])

----------------------------------------------------------------------------
(* The two-phase delete commands: lib.rs                                   *)

\* the bug of counting the safe files where their sizes should be summed
SumSizes_count(files) == Len(files)

RECURSIVE SumSizes(_)
SumSizes(files) ==
    IF files = <<>> THEN 0 ELSE Head(files).size_bytes + SumSizes(Tail(files))

IsSafe(f) == f.is_safe_to_delete
\* the bug of reporting only user data as blocked
IsBlocked_user_data(f) == f.category = "UserData"
IsBlocked(f) == ~f.is_safe_to_delete
PathsOf(files) == [i \in 1..Len(files) |-> files[i].path]

\* preview_delete: what it returns
preview_delete(pl, fs, paths) ==
    [tag |-> "Ok", value |-> index_files(pl, fs, paths)]

\* confirm_delete: the filesystem and store it leaves, and what it returns
confirm_delete(pl, fs, lk, ctx_file, timestamp, paths) ==
    LET indexed == index_files(pl, fs, paths)
        safe_paths == PathsOf(SelectSeq(indexed, IsSafe))
        blocked == PathsOf(SelectSeq(indexed, IsBlocked))
        total_bytes == SumSizes(SelectSeq(indexed, IsSafe))
        del == delete_all(fs, lk, safe_paths)
    IN  IF safe_paths = <<>>
        THEN [fs |-> fs, store |-> ctx_file, indexed |-> indexed,
              trash_called |-> FALSE, handed |-> <<>>,
              ret |-> [tag |-> "Ok",
                       value |-> [removed |-> 0, blocked |-> blocked,
                                  errors |-> <<"No safe files to delete after safety check.">>]]]
        ELSE IF del.ok
        THEN [fs |-> del.fs,
              store |-> record_deletion(load(ctx_file), safe_paths, total_bytes, timestamp),
              indexed |-> indexed, trash_called |-> TRUE, handed |-> safe_paths,
              ret |-> [tag |-> "Ok",
                       value |-> [removed |-> Len(safe_paths), bytes_freed |-> total_bytes,
                                  blocked |-> blocked, errors |-> <<>>]]]
        ELSE [fs |-> del.fs, store |-> ctx_file, indexed |-> indexed,
              trash_called |-> TRUE, handed |-> safe_paths,
              ret |-> [tag |-> "Err", error |-> "Delete failed"]]

\* clean_items routes through confirm_delete
clean_items(pl, fs, lk, ctx_file, timestamp, paths) ==
    confirm_delete(pl, fs, lk, ctx_file, timestamp, paths)

----------------------------------------------------------------------------
(* The state machine of the commands                                       *)

MaxBatch == 3     \* the longest path list a command is given
MaxCalls == 2     \* the number of commands in a run

RECURSIVE SeqsUpTo(_, _)
SeqsUpTo(S, n) ==
    IF n = 0 THEN {<<>>}
    ELSE LET shorter == SeqsUpTo(S, n - 1)
         IN  shorter \cup {Append(s, x) : s \in {r \in shorter : Len(r) = n - 1}, x \in S}

Batches == SeqsUpTo(UniverseSet, MaxBatch)

NoCommand ==
    [op |-> "none", paths |-> <<>>, indexed |-> <<>>, trash_called |-> FALSE,
     handed |-> <<>>, pre_present |-> {}, pre_store |-> NoFile,
     ret |-> [tag |-> "none"]]

\* the macOS build on a fresh installation: every modelled path is on disk,
\* one of them possibly not movable, and no store file yet
Init ==
    /\ platform = "macos"
    /\ present = UniverseSet
    /\ locked \in SUBSET {p_cache}
    /\ store = NoFile
    /\ now = 0
    /\ last = NoCommand
    /\ AsideInit

PreviewDelete(paths) ==
    /\ now < MaxCalls
    /\ now' = now + 1
    /\ last' = [op |-> "preview_delete", paths |-> paths,
                indexed |-> index_files(platform, present, paths),
                trash_called |-> FALSE, handed |-> <<>>,
                pre_present |-> present, pre_store |-> store,
                ret |-> preview_delete(platform, present, paths)]
    /\ UNCHANGED <<platform, present, locked, store>>
    /\ UNCHANGED aside

RunConfirm(out, paths) ==
    /\ present' = out.fs
    /\ store' = out.store
    /\ last' = [op |-> "confirm_delete", paths |-> paths, indexed |-> out.indexed,
                trash_called |-> out.trash_called, handed |-> out.handed,
                pre_present |-> present, pre_store |-> store, ret |-> out.ret]

ConfirmDelete(paths) ==
    /\ now < MaxCalls
    /\ now' = now + 1
    /\ RunConfirm(confirm_delete(platform, present, locked, store, now + 1, paths), paths)
    /\ UNCHANGED <<platform, locked>>
    /\ UNCHANGED aside

CleanItems(paths) ==
    /\ now < MaxCalls
    /\ now' = now + 1
    /\ RunConfirm(clean_items(platform, present, locked, store, now + 1, paths), paths)
    /\ UNCHANGED <<platform, locked>>
    /\ UNCHANGED aside

Next ==
    \/ \E paths \in Batches : PreviewDelete(paths)
    \/ \E paths \in Batches : ConfirmDelete(paths)
    \/ \E paths \in Batches : CleanItems(paths)

Spec == Init /\ [][Next]_vars

----------------------------------------------------------------------------
(* The classifier on its own: one index_file call on a path of the corpus  *)

MaxSegs == 2      \* the most segments a corpus path has below its root

\* /Users/a, /System/Library, /tmp, C:\Windows, C:\Users\a,
\* C:\Users\a\AppData\Local
MainRoots ==
    {
      <<"/","U","s","e","r","s","/","a">>,
      <<"/","S","y","s","t","e","m","/","L","i","b","r","a","r","y">>,
      <<"/","t","m","p">>,
      <<"C",":","\\","W","i","n","d","o","w","s">>,
      <<"C",":","\\","U","s","e","r","s","\\","a">>,
      <<"C",":","\\","U","s","e","r","s","\\","a","\\","A","p","p","D","a","t","a","\\","L","o","c","a","l">>
    }

\* /usr, /bin, /sbin, /private/var/db, /Library/Apple, /Library/CoreServices,
\* /Library, /private/var/folders/zz, /private/tmp, C:\Boot, C:\Recovery,
\* C:\System Volume Information, C:\Program Files\Common Files, C:\tmp
OtherRoots ==
    {
      <<"/","u","s","r">>,
      <<"/","b","i","n">>,
      <<"/","s","b","i","n">>,
      <<"/","p","r","i","v","a","t","e","/","v","a","r","/","d","b">>,
      <<"/","L","i","b","r","a","r","y","/","A","p","p","l","e">>,
      <<"/","L","i","b","r","a","r","y","/","C","o","r","e","S","e","r","v","i","c","e","s">>,
      <<"/","L","i","b","r","a","r","y">>,
      <<"/","p","r","i","v","a","t","e","/","v","a","r","/","f","o","l","d","e","r","s","/","z","z">>,
      <<"/","p","r","i","v","a","t","e","/","t","m","p">>,
      <<"C",":","\\","B","o","o","t">>,
      <<"C",":","\\","R","e","c","o","v","e","r","y">>,
      <<"C",":","\\","S","y","s","t","e","m"," ","V","o","l","u","m","e"," ","I","n","f","o","r","m","a","t","i","o","n">>,
      <<"C",":","\\","P","r","o","g","r","a","m"," ","F","i","l","e","s","\\","C","o","m","m","o","n"," ","F","i","l","e","s">>,
      <<"C",":","\\","t","m","p">>
    }

\* Caches, Logs, app.log, Documents, Google Drive, Temp, Application Support,
\* AppData, LocalStorage, Cookies, com.app, abc
MainSegments ==
    {
      <<"C","a","c","h","e","s">>,
      <<"L","o","g","s">>,
      <<"a","p","p",".","l","o","g">>,
      <<"D","o","c","u","m","e","n","t","s">>,
      <<"G","o","o","g","l","e"," ","D","r","i","v","e">>,
      <<"T","e","m","p">>,
      <<"A","p","p","l","i","c","a","t","i","o","n"," ","S","u","p","p","o","r","t">>,
      <<"A","p","p","D","a","t","a">>,
      <<"L","o","c","a","l","S","t","o","r","a","g","e">>,
      <<"C","o","o","k","i","e","s">>,
      <<"c","o","m",".","a","p","p">>,
      <<"a","b","c">>
    }

\* Desktop, Downloads, Pictures, Movies, Music, Dropbox, iCloud, OneDrive,
\* History, Roaming, notes.txt
OtherSegments ==
    {
      <<"D","e","s","k","t","o","p">>,
      <<"D","o","w","n","l","o","a","d","s">>,
      <<"P","i","c","t","u","r","e","s">>,
      <<"M","o","v","i","e","s">>,
      <<"M","u","s","i","c">>,
      <<"D","r","o","p","b","o","x">>,
      <<"i","C","l","o","u","d">>,
      <<"O","n","e","D","r","i","v","e">>,
      <<"H","i","s","t","o","r","y">>,
      <<"R","o","a","m","i","n","g">>,
      <<"n","o","t","e","s",".","t","x","t">>
    }

SepOf(root) == IF "\\" \in {root[i] : i \in 1..Len(root)} THEN "\\" ELSE "/"

RECURSIVE JoinSegments(_, _)
JoinSegments(sep, segs) ==
    IF segs = <<>> THEN <<>>
    ELSE <<sep>> \o Head(segs) \o JoinSegments(sep, Tail(segs))

\* every main root with up to MaxSegs main segments below it, and every
\* root with at most one segment (of any kind) below it
Corpus ==
    {r \o JoinSegments(SepOf(r), segs) :
        r \in MainRoots, segs \in SeqsUpTo(MainSegments, MaxSegs)}
    \cup
    {r \o JoinSegments(SepOf(r), segs) :
        r \in MainRoots \cup OtherRoots,
        segs \in SeqsUpTo(MainSegments \cup OtherSegments, 1)}

\* a caller holds one path; the file may or may not exist
IndexInit ==
    /\ platform \in Platforms
    /\ \E p \in Corpus :
          /\ last = [NoCommand EXCEPT !.op = "pending", !.paths = <<p>>]
          /\ present \in {{}, {p}}
    /\ locked = {}
    /\ store = NoFile
    /\ now = 0
    /\ AsideInit

IndexFile ==
    /\ last.op = "pending"
    /\ last' = [last EXCEPT !.op = "index_file",
                            !.indexed = index_files(platform, present, last.paths),
                            !.pre_present = present,
                            !.ret = [tag |-> "Ok"]]
    /\ now' = now + 1
    /\ UNCHANGED <<platform, present, locked, store>>
    /\ UNCHANGED aside

IndexNext == IndexFile

SpecIndex == IndexInit /\ [][IndexNext]_vars

----------------------------------------------------------------------------
(* Properties.  Their vocabulary is defined here, apart from the           *)
(* operators above that compute the classification.                        *)

Range(s) == {s[i] : i \in 1..Len(s)}

Lowered(s) ==
    [i \in 1..Len(s) |->
        IF \E k \in 1..26 : UpperChars[k] = s[i]
        THEN LowerChars[CHOOSE k \in 1..26 : UpperChars[k] = s[i]]
        ELSE s[i]]

HasPrefix(s, p) == Len(p) <= Len(s) /\ \A i \in 1..Len(p) : s[i] = p[i]
HasInfix(s, p) ==
    \E k \in 0..(Len(s) - Len(p)) : \A i \in 1..Len(p) : s[k + i] = p[i]
HasSuffix(s, p) ==
    Len(p) <= Len(s) /\ \A i \in 1..Len(p) : s[Len(s) - Len(p) + i] = p[i]

\* the path starts (in lower case) with a system-critical prefix of the build
UnderSystemPrefix(pl, path) ==
    \E i \in 1..Len(system_critical_prefixes(pl)) :
        HasPrefix(Lowered(path), system_critical_prefixes(pl)[i])

\* documents, desktop, downloads, pictures, movies, music, dropbox, icloud,
\* onedrive, google drive
UserDataWords ==
    {
      <<"d","o","c","u","m","e","n","t","s">>,
      <<"d","e","s","k","t","o","p">>,
      <<"d","o","w","n","l","o","a","d","s">>,
      <<"p","i","c","t","u","r","e","s">>,
      <<"m","o","v","i","e","s">>,
      <<"m","u","s","i","c">>,
      <<"d","r","o","p","b","o","x">>,
      <<"i","c","l","o","u","d">>,
      <<"o","n","e","d","r","i","v","e">>,
      <<"g","o","o","g","l","e"," ","d","r","i","v","e">>
    }

NamesUserData(path) == \E w \in UserDataWords : HasInfix(Lowered(path), w)
NamesCache(path) == HasInfix(Lowered(path), <<"c","a","c","h","e">>)
NamesTemp(path) == HasInfix(Lowered(path), <<"t","e","m","p">>)

\* the one path classified by the last index_file call, and its verdict
Classified == last.op = "index_file"
ThePath == last.paths[1]
TheFile == last.indexed[1]

SafeCategories == {"Cache", "Log", "Temp"}

\* C2: the verdict of index_file is safe exactly when its category is Cache,
\* Log or Temp, and unsafe for SystemCritical, UserData, AppSupport, Unknown.
C2_SafeIffCategory ==
    Classified =>
        /\ TheFile.category \in FileCategory
        /\ TheFile.is_safe_to_delete = (TheFile.category \in SafeCategories)

\* an index_file call has returned AppSupport, which is unsafe
C2_Witness ==
    /\ Classified
    /\ TheFile.category = "AppSupport"
    /\ ~TheFile.is_safe_to_delete

\* C3: a path under a system-critical prefix is SystemCritical and unsafe,
\* whatever else it contains: the system check wins over every later check.
C3_SystemPrefixWins ==
    (Classified /\ UnderSystemPrefix(platform, ThePath)) =>
        /\ TheFile.category = "SystemCritical"
        /\ ~TheFile.is_safe_to_delete

\* a system path that contains "cache" has been classified SystemCritical
C3_Witness ==
    /\ Classified
    /\ UnderSystemPrefix(platform, ThePath)
    /\ NamesCache(ThePath)
    /\ TheFile.category = "SystemCritical"

\* the path with a nested cache segment added below it
WithCacheSegment(path) == path \o <<SepOf(path)>> \o <<"C","a","c","h","e">>

\* C4: a non-system path that names a user-data directory and contains
\* neither "cache" nor "temp" is UserData and unsafe; the same path with a
\* nested cache segment added is Cache and safe.
C4_UserDataUnlessCache ==
    (/\ Classified
     /\ ~UnderSystemPrefix(platform, ThePath)
     /\ NamesUserData(ThePath)
     /\ ~NamesCache(ThePath)
     /\ ~NamesTemp(ThePath)) =>
        /\ TheFile.category = "UserData"
        /\ ~TheFile.is_safe_to_delete
        /\ index_file(platform, 0, WithCacheSegment(ThePath)).category = "Cache"
        /\ index_file(platform, 0, WithCacheSegment(ThePath)).is_safe_to_delete

\* a path under Google Drive has been classified UserData
C4_Witness ==
    /\ Classified
    /\ HasInfix(Lowered(ThePath), <<"g","o","o","g","l","e"," ","d","r","i","v","e">>)
    /\ ~NamesCache(ThePath)
    /\ ~NamesTemp(ThePath)
    /\ TheFile.category = "UserData"

\* the path matches a cache, log, temp or app-support pattern of the build
MatchesLaterPattern(pl, path) ==
    LET lc == Lowered(path)
    IN  \/ NamesCache(path)
        \/ HasInfix(lc, <<"l","o","c","a","l","s","t","o","r","a","g","e">>)
        \/ HasInfix(lc, <<"l","o","g","s">>)
        \/ HasSuffix(lc, <<".","l","o","g">>)
        \/ IF pl = "macos"
           THEN \/ HasPrefix(lc, <<"/","t","m","p","/">>)
                \/ HasInfix(lc, <<"/","v","a","r","/","f","o","l","d","e","r","s","/">>)
                \/ HasInfix(lc, s_application_support)
           ELSE \/ HasInfix(lc, <<"\\","t","e","m","p","\\">>)
                \/ HasInfix(lc, <<"\\","t","m","p","\\">>)
                \/ HasInfix(lc, s_appdata)

\* C6: index_file always returns one verdict for the path it was given, and
\* a path that matches no pattern at all is Unknown and unsafe.
C6_TotalDenyByDefault ==
    Classified =>
        /\ Len(last.indexed) = 1
        /\ TheFile.path = ThePath
        /\ TheFile.category \in FileCategory
        /\ TheFile.is_safe_to_delete \in BOOLEAN
        /\ (/\ ~UnderSystemPrefix(platform, ThePath)
            /\ ~NamesUserData(ThePath)
            /\ ~MatchesLaterPattern(platform, ThePath)) =>
                (TheFile.category = "Unknown" /\ ~TheFile.is_safe_to_delete)

\* a path that matches no pattern has been classified Unknown
C6_Witness ==
    /\ Classified
    /\ ~UnderSystemPrefix(platform, ThePath)
    /\ ~NamesUserData(ThePath)
    /\ ~MatchesLaterPattern(platform, ThePath)
    /\ TheFile.category = "Unknown"

----------------------------------------------------------------------------
(* Properties of the delete commands                                       *)

Confirmed == last.op = "confirm_delete"

VerdictSafe(f) == f.is_safe_to_delete = TRUE
VerdictUnsafe(f) == f.is_safe_to_delete = FALSE
PathList(files) == [i \in 1..Len(files) |-> files[i].path]

\* the inputs of the last command as its own classification sorted them
SafeInputs == PathList(SelectSeq(last.indexed, VerdictSafe))
UnsafeInputs == PathList(SelectSeq(last.indexed, VerdictUnsafe))

\* what the last command took off the disk
RemovedSet == last.pre_present \ present

\* C1: confirm_delete hands to the trash exactly the inputs its own fresh
\* classification marks safe; every input it marks unsafe stays on disk and
\* is reported in blocked.
C1_OnlyFreshSafeRemoved ==
    Confirmed =>
        /\ last.indexed = index_files(platform, last.pre_present, last.paths)
        /\ last.handed = SafeInputs
        /\ \A p \in Range(UnsafeInputs) :
              /\ p \in last.pre_present => p \in present
              /\ last.ret.tag = "Ok"
              /\ p \in Range(last.ret.value.blocked)

\* the last segment of a path
RECURSIVE FileNameOf(_)
FileNameOf(path) ==
    IF path = <<>> \/ path[Len(path)] \in {"/", "\\"} THEN <<>>
    ELSE FileNameOf(SubSeq(path, 1, Len(path) - 1)) \o <<path[Len(path)]>>

\* a cookie store or a history store, by its file name
IsSessionArtifact(path) ==
    Lowered(FileNameOf(path)) \in
        {<<"c","o","o","k","i","e","s">>, <<"h","i","s","t","o","r","y">>}

\* C5: a file named as a cookie or history store is never classified safe,
\* so preview never reports it safe and confirm never removes it.
C5_SessionArtifactsNeverSafe ==
    \A i \in 1..Len(last.indexed) :
        IsSessionArtifact(last.indexed[i].path) =>
            /\ ~last.indexed[i].is_safe_to_delete
            /\ last.indexed[i].path \in last.pre_present =>
                  last.indexed[i].path \in present

RECURSIVE SumOver(_)
SumOver(S) ==
    IF S = {} THEN 0
    ELSE LET p == CHOOSE x \in S : TRUE IN FileLen(p) + SumOver(S \ {p})

\* the history h1 is the history h0 with the one record rec appended (the
\* oldest records making room once the history is full)
AppendedOne(h0, h1, rec) ==
    /\ Len(h1) = IF Len(h0) < MaxDeletionHistory THEN Len(h0) + 1 ELSE MaxDeletionHistory
    /\ h1[Len(h1)] = rec
    /\ \A i \in 1..(Len(h1) - 1) : h1[i] = h0[Len(h0) - (Len(h1) - 1) + i]

\* C7: when some input is freshly safe and the trash removal succeeds,
\* removed is the number of safe paths, blocked is the list of unsafe
\* inputs, one DeletionRecord is appended, and its total_bytes_freed and the
\* returned bytes_freed are the sum of the sizes of the removed paths.
C7_SuccessfulConfirm ==
    (Confirmed /\ SafeInputs # <<>> /\ last.ret.tag = "Ok") =>
        LET v == last.ret.value
            h1 == load(store).deletion_history
        IN  /\ v.removed = Len(SafeInputs)
            /\ v.blocked = UnsafeInputs
            /\ v.errors = <<>>
            /\ Range(SafeInputs) \subseteq RemovedSet
            /\ v.bytes_freed = SumOver(Range(SafeInputs))
            /\ h1 # <<>>
            /\ AppendedOne(load(last.pre_store).deletion_history, h1, h1[Len(h1)])
            /\ h1[Len(h1)].paths_deleted = SafeInputs
            /\ h1[Len(h1)].total_bytes_freed = v.bytes_freed
            /\ store = Saved([load(last.pre_store) EXCEPT !.deletion_history = h1])

\* a second confirm of two safe paths and one unsafe path has succeeded
C7_Witness ==
    /\ Confirmed
    /\ last.ret.tag = "Ok"
    /\ Len(SafeInputs) = 2
    /\ Len(UnsafeInputs) = 1
    /\ last.ret.value.removed = 2
    /\ Len(load(last.pre_store).deletion_history) = 1
    /\ Len(load(store).deletion_history) = 2

\* C8: when no input is freshly safe, confirm_delete returns normally with
\* removed = 0, blocked = all inputs and a non-empty errors list, removes
\* nothing and appends no DeletionRecord.
C8_NothingSafe ==
    (Confirmed /\ SafeInputs = <<>>) =>
        /\ last.ret.tag = "Ok"
        /\ last.ret.value.removed = 0
        /\ last.ret.value.blocked = last.paths
        /\ last.ret.value.errors # <<>>
        /\ ~last.trash_called
        /\ present = last.pre_present
        /\ store = last.pre_store

\* a confirm of three unsafe paths has returned, after an earlier deletion
C8_Witness ==
    /\ Confirmed
    /\ Len(last.paths) = 3
    /\ SafeInputs = <<>>
    /\ load(last.pre_store).deletion_history # <<>>
    /\ last.ret.tag = "Ok"

\* a path the trash mechanism can move when the command starts
Removable(p) == p \in last.pre_present /\ p \notin locked

\* C9: when a safe path of the batch cannot be removed, confirm_delete still
\* returns a result: the failure is recorded in errors or blocked, and every
\* other safe path of the batch is removed and counted.
C9_PartialFailureTolerated ==
    (/\ Confirmed
     /\ \E p \in Range(SafeInputs) : ~Removable(p)
     /\ \E q \in Range(SafeInputs) : Removable(q)) =>
        /\ last.ret.tag = "Ok"
        /\ \/ last.ret.value.errors # <<>>
           \/ \E p \in Range(SafeInputs) :
                 ~Removable(p) /\ p \in Range(last.ret.value.blocked)
        /\ \A q \in Range(SafeInputs) : Removable(q) => q \notin present
        /\ last.ret.value.removed =
              Cardinality({q \in Range(SafeInputs) : Removable(q)})

\* C10: after confirm_delete the audit trail matches what was removed: one
\* DeletionRecord whose paths are exactly the removed set when something
\* was removed, and no record when nothing was.
C10_AuditMatchesRemoved ==
    Confirmed =>
        LET h0 == load(last.pre_store).deletion_history
            h1 == load(store).deletion_history
        IN  IF Range(SafeInputs) \cap RemovedSet # {}
            THEN /\ h1 # <<>>
                 /\ AppendedOne(h0, h1, h1[Len(h1)])
                 /\ Range(h1[Len(h1)].paths_deleted) = Range(SafeInputs) \cap RemovedSet
            ELSE h1 = h0

----------------------------------------------------------------------------
(* The disk of the uninstaller and of the login-item remover               *)

\* the application bundle, a directory: /Applications/X.app
p_app ==
    <<"/","A","p","p","l","i","c","a","t","i","o","n","s","/","X",".","a","p","p">>

\* /Applications/X.app/Contents/Info.plist
p_app_plist ==
    <<"/","A","p","p","l","i","c","a","t","i","o","n","s","/","X",".","a","p","p","/","C","o","n","t","e","n","t","s","/","I","n","f","o",".","p","l","i","s","t">>

\* the application's cache directory: /Users/a/Library/Caches/com.app
p_left_cache ==
    <<"/","U","s","e","r","s","/","a","/","L","i","b","r","a","r","y","/","C","a","c","h","e","s","/","c","o","m",".","a","p","p">>

\* the application's preferences: /Users/a/Library/Preferences/com.app.plist
p_left_prefs ==
    <<"/","U","s","e","r","s","/","a","/","L","i","b","r","a","r","y","/","P","r","e","f","e","r","e","n","c","e","s","/","c","o","m",".","a","p","p",".","p","l","i","s","t">>

\* a launch daemon of the system: /Library/LaunchDaemons/com.x.plist
p_daemon_plist ==
    <<"/","L","i","b","r","a","r","y","/","L","a","u","n","c","h","D","a","e","m","o","n","s","/","c","o","m",".","x",".","p","l","i","s","t">>

\* CFBundleIdentifier of X.app
bundle_id_app ==
    <<"c","o","m",".","a","p","p">>

\* p and everything below it on a filesystem
Below(fs, p) == {q \in fs : q = p \/ starts_with(q, p \o <<"/">>)}

----------------------------------------------------------------------------
(* The shredder: lib.rs shred_path_command, scanners/shredder.rs           *)

\* dirs::home_dir()
home_dir ==
    <<"/","U","s","e","r","s","/","a">>

\* a symbolic link in the cache directory to a document of the user
\* /Users/a/Library/Caches/lnk -> /Users/a/Documents/report.doc
p_link_report ==
    <<"/","U","s","e","r","s","/","a","/","L","i","b","r","a","r","y","/","C","a","c","h","e","s","/","l","n","k">>

\* a symbolic link in the cache directory to a system file
\* /Users/a/Library/Caches/sys -> /System/Library/Caches/x
p_link_sys ==
    <<"/","U","s","e","r","s","/","a","/","L","i","b","r","a","r","y","/","C","a","c","h","e","s","/","s","y","s">>

\* a cache path that is not on disk: /Users/a/Library/Caches/gone
p_missing ==
    <<"/","U","s","e","r","s","/","a","/","L","i","b","r","a","r","y","/","C","a","c","h","e","s","/","g","o","n","e">>

\* a cache file of another user, whose name begins like the home directory
\* /Users/ab/Library/Caches/x
p_neighbour ==
    <<"/","U","s","e","r","s","/","a","b","/","L","i","b","r","a","r","y","/","C","a","c","h","e","s","/","x">>

\* the cache file as a caller may pass it, with white space around it
p_padded == <<" ">> \o p_cache \o <<"\n">>

Links == {p_link_report, p_link_sys}
link_target(p) == IF p = p_link_report THEN p_report ELSE p_syscache
Dirs == {p_logs, p_app, p_left_cache}

White == {" ", "\t", "\n", "\r"}

\* str::trim
RECURSIVE trim_start(_)
trim_start(s) ==
    IF s # <<>> /\ Head(s) \in White THEN trim_start(Tail(s)) ELSE s

RECURSIVE trim_end(_)
trim_end(s) ==
    IF s # <<>> /\ s[Len(s)] \in White THEN trim_end(SubSeq(s, 1, Len(s) - 1)) ELSE s

trim(s) == trim_end(trim_start(s))

\* Path::exists follows symbolic links
exists(fs, p) == IF p \in Links THEN link_target(p) \in fs ELSE p \in fs

\* the bug of taking the path as given, links unresolved
canonicalize_unresolved(p) == p

\* Path::canonicalize of a path that exists: symbolic links are resolved
canonicalize(p) == IF p \in Links THEN link_target(p) ELSE p

\* Path::starts_with: whole components
path_starts_with(p, root) == p = root \/ starts_with(p, root \o <<"/">>)

\* canonicalize_and_validate_path with the home directory as the only root
canonicalize_and_validate_path(fs, path_str) ==
    IF ~exists(fs, path_str)
    THEN [tag |-> "Err", error |-> "Path does not exist"]
    ELSE IF ~path_starts_with(canonicalize(path_str), home_dir)
    THEN [tag |-> "Err", error |-> "Path is outside allowed directories (e.g. home)."]
    ELSE [tag |-> "Ok", value |-> canonicalize(path_str)]

\* shredder::shred_path: the filesystem it leaves and what it returns.  A file
\* is overwritten, renamed and removed; the files of a directory are
\* overwritten as the walk meets them, then the directory is removed.  A file
\* that cannot be opened for writing stops it with an error.
shred_path(fs, lk, wp, path) ==
    IF path \notin fs
    THEN [fs |-> fs, wiped |-> wp, ret |-> [tag |-> "Err", error |-> "Path does not exist"]]
    ELSE IF path \in Dirs
    THEN LET files == (Tree(path) \cap fs) \ Dirs
         IN  IF files \cap lk # {}
             THEN [fs |-> fs, wiped |-> wp \cup (files \ lk),
                   ret |-> [tag |-> "Err", error |-> "Permission denied"]]
             ELSE [fs |-> fs \ Tree(path), wiped |-> wp \cup files, ret |-> [tag |-> "Ok"]]
    ELSE IF path \in lk
    THEN [fs |-> fs, wiped |-> wp, ret |-> [tag |-> "Err", error |-> "Permission denied"]]
    ELSE [fs |-> fs \ {path}, wiped |-> wp \cup {path}, ret |-> [tag |-> "Ok"]]

\* shred_path_command: the filesystem it leaves, the verdict it computed,
\* whether it reached shred_path, and what it returns
shred_path_command(pl, fs, lk, wp, path) ==
    LET canonical == canonicalize_and_validate_path(fs, trim(path))
        indexed == index_file_at(pl, fs, canonical.value)
        out == shred_path(fs, lk, wp, canonical.value)
        refuse(err) == [fs |-> fs, wiped |-> wp, reached |-> FALSE, ret |-> err]
    IN  IF canonical.tag = "Err"
        THEN refuse(canonical) @@ [indexed |-> <<>>]
        ELSE IF ~indexed.is_safe_to_delete
        THEN refuse([tag |-> "Err", error |-> "Shredder blocked"]) @@ [indexed |-> <<indexed>>]
        ELSE IF indexed.category \in {"SystemCritical", "UserData"}
        THEN refuse([tag |-> "Err", error |-> "Shredder blocked (category)"]) @@ [indexed |-> <<indexed>>]
        ELSE [fs |-> out.fs, wiped |-> out.wiped, reached |-> TRUE,
              ret |-> out.ret, indexed |-> <<indexed>>]

MaxShreds == 2    \* the number of shred commands in a run

ShredInputs ==
    {p_cache, p_logs, p_logs_doc, p_report, p_syscache, p_link_report,
     p_link_sys, p_missing, p_neighbour, p_padded}

\* the macOS build; some of the modelled files are on disk, some of those
\* cannot be opened for writing, and nothing was shredded yet
ShredInit ==
    /\ platform = "macos"
    /\ present \in {UniverseSet \cup {p_neighbour}, UniverseSet \ {p_report},
                    (UniverseSet \ {p_syscache}) \cup {p_neighbour}}
    /\ locked \in SUBSET {p_cache, p_logs_doc}
    /\ store = NoFile
    /\ now = 0
    /\ wiped = {}
    /\ IpcIdle
    /\ last = [op |-> "none", path |-> <<>>, indexed |-> <<>>, reached |-> FALSE,
               pre_present |-> {}, pre_wiped |-> {}, ret |-> [tag |-> "none"]]

ShredPathCommand(path) ==
    /\ now < MaxShreds
    /\ now' = now + 1
    /\ LET out == shred_path_command(platform, present, locked, wiped, path)
       IN  /\ present' = out.fs
           /\ wiped' = out.wiped
           /\ last' = [op |-> "shred_path_command", path |-> path,
                       indexed |-> out.indexed, reached |-> out.reached,
                       pre_present |-> present, pre_wiped |-> wiped, ret |-> out.ret]
    /\ UNCHANGED <<platform, locked, store>>
    /\ UNCHANGED ipc

ShredNext == \E path \in ShredInputs : ShredPathCommand(path)

SpecShred == ShredInit /\ [][ShredNext]_vars

\* C12: shred_path_command classifies the canonical path itself and refuses,
\* with an error and without reaching shred_path, a path that does not exist,
\* one that resolves outside the home directory, and one whose verdict is
\* unsafe (SystemCritical and UserData among them); a refusal leaves no file
\* overwritten, renamed or deleted.
Shredded == last.op = "shred_path_command"
ShredResolved ==
    IF trim(last.path) \in Links THEN link_target(trim(last.path)) ELSE trim(last.path)
ShredOnDisk == ShredResolved \in last.pre_present
ShredInHome == HasPrefix(ShredResolved, home_dir \o <<"/">>)
ShredVerdict == index_file_at(platform, last.pre_present, ShredResolved)
ShredRefusable ==
    \/ ~ShredOnDisk
    \/ ~ShredInHome
    \/ ~ShredVerdict.is_safe_to_delete
    \/ ShredVerdict.category \in {"SystemCritical", "UserData"}

C12_ShredderRefuses ==
    Shredded =>
        /\ (ShredOnDisk /\ ShredInHome) => last.indexed = <<ShredVerdict>>
        /\ ShredRefusable =>
              /\ ~last.reached
              /\ last.ret.tag = "Err"
              /\ present = last.pre_present
              /\ wiped = last.pre_wiped
        /\ last.reached => ~ShredRefusable

\* a link that sits in the cache directory and leads to a document that is on
\* disk is refused
C12_Witness ==
    /\ Shredded
    /\ last.path = p_link_report
    /\ ShredOnDisk
    /\ last.indexed # <<>>
    /\ last.indexed[1].category = "UserData"
    /\ last.ret.tag = "Err"

----------------------------------------------------------------------------
(* The socket protocol: helper_client.rs and bin/alto_helper.rs.  What is  *)
(* written to the socket is a sequence of JSON tokens, a path or a message *)
(* being spliced in character by character.                                *)

Ping == [action |-> "Ping", path |-> <<>>]
DeletePath(p) == [action |-> "DeletePath", path |-> p]
UninstallApp(p) == [action |-> "UninstallApp", path |-> p]

Ok(v) == [tag |-> "Ok", value |-> v]
Err(e) == [tag |-> "Err", error |-> e]

\* serde_json::to_vec(&cmd), enum Command tagged "action" with content "payload"
to_vec_command(cmd) ==
    IF cmd.action = "Ping" THEN <<"{", "action", "Ping", "}">>
    ELSE IF cmd.action = "DeletePath"
    THEN <<"{", "action", "DeletePath", "payload", "{", "path">> \o cmd.path \o <<"}", "}">>
    ELSE <<"{", "action", "UninstallApp", "payload", "{", "bundle_path">> \o cmd.path \o <<"}", "}">>

\* the bug of asking every command for a payload, Ping too
command_decodes_payload(b) ==
    /\ Len(b) >= 8
    /\ b[1] = "{" /\ b[2] = "action" /\ b[Len(b)] = "}"
    /\ b[4] = "payload" /\ b[5] = "{" /\ b[Len(b) - 1] = "}"
    /\ \/ b[3] = "DeletePath" /\ b[6] = "path"
       \/ b[3] = "UninstallApp" /\ b[6] = "bundle_path"

\* serde_json::from_slice::<Command>: whether the bytes decode, and to what
command_decodes(b) ==
    /\ Len(b) >= 4
    /\ b[1] = "{" /\ b[2] = "action" /\ b[Len(b)] = "}"
    /\ \/ Len(b) = 4 /\ b[3] = "Ping"
       \/ /\ Len(b) >= 8
          /\ b[4] = "payload" /\ b[5] = "{" /\ b[Len(b) - 1] = "}"
          /\ \/ b[3] = "DeletePath" /\ b[6] = "path"
             \/ b[3] = "UninstallApp" /\ b[6] = "bundle_path"

from_slice_command(b) ==
    IF b[3] = "Ping" THEN Ping
    ELSE [action |-> b[3], path |-> SubSeq(b, 7, Len(b) - 2)]

\* the bug of leaving the message out of the response
to_vec_response_bare(r) ==
    <<"{", "success", IF r.success THEN "true" ELSE "false", "message", "}">>

\* serde_json::to_vec(&response), struct Response { success, message }
to_vec_response(r) ==
    <<"{", "success", IF r.success THEN "true" ELSE "false", "message">>
        \o r.message \o <<"}">>

\* the bug of taking a response that was cut short for a whole one
response_decodes_cut(b) ==
    /\ Len(b) >= 4
    /\ b[1] = "{" /\ b[2] = "success" /\ b[3] \in {"true", "false"} /\ b[4] = "message"

\* serde_json::from_slice::<Response>: whether the bytes decode, and to what
response_decodes(b) ==
    /\ Len(b) >= 5
    /\ b[1] = "{" /\ b[2] = "success" /\ b[3] \in {"true", "false"} /\ b[4] = "message"
    /\ b[Len(b)] = "}"

from_slice_response(b) ==
    [success |-> b[3] = "true", message |-> SubSeq(b, 5, Len(b) - 1)]

\* The other end of the socket as send_command meets it: nobody listens
\* ("refused"), the connection breaks while the request is written or the
\* reply is read, or the peer closes after writing reply (nothing, if it
\* wrote nothing).
Refused == [kind |-> "refused", reply |-> <<>>]
BrokenWrite == [kind |-> "broken_write", reply |-> <<>>]
BrokenRead == [kind |-> "broken_read", reply |-> <<>>]
Replied(b) == [kind |-> "replied", reply |-> b]

\* helper_client::send_command (unix)
send_command(cmd, peer) ==
    IF peer.kind = "refused" THEN Err("Failed to connect to helper")
    ELSE IF peer.kind = "broken_write" THEN Err("Broken pipe")
    ELSE IF peer.kind = "broken_read" THEN Err("Connection reset by peer")
    ELSE IF Len(peer.reply) = 0 THEN Err("Empty response from helper")
    ELSE IF ~response_decodes(peer.reply) THEN Err("expected value")
    ELSE Ok(from_slice_response(peer.reply))

\* alto_helper handle_connection, running as root: the filesystem it leaves
\* and what it writes to the socket before it closes the connection
handle_connection(fs, b) ==
    IF Len(b) = 0 THEN [fs |-> fs, reply |-> <<>>]
    ELSE IF ~command_decodes(b) THEN [fs |-> fs, reply |-> <<>>]
    ELSE LET request == from_slice_command(b)
             path == request.path
         IN  IF request.action = "Ping"
             THEN [fs |-> fs,
                   reply |-> to_vec_response([success |-> TRUE, message |-> <<"Pong">>])]
             ELSE IF request.action = "DeletePath"
             THEN IF path \in fs
                  THEN [fs |-> fs \ Below(fs, path),
                        reply |-> to_vec_response([success |-> TRUE,
                                                   message |-> <<"Deleted ">> \o path])]
                  ELSE [fs |-> fs,
                        reply |-> to_vec_response([success |-> FALSE,
                                     message |-> <<"No such file or directory">>])]
             ELSE IF path \in fs /\ path \in Dirs
                  THEN [fs |-> fs \ Below(fs, path),
                        reply |-> to_vec_response([success |-> TRUE,
                                                   message |-> <<"Uninstalled ">> \o path])]
                  ELSE [fs |-> fs,
                        reply |-> to_vec_response([success |-> FALSE,
                                     message |-> IF path \in fs
                                                 THEN <<"Not a directory">>
                                                 ELSE <<"No such file or directory">>])]

----------------------------------------------------------------------------
(* send_command on its own: one call, whatever is at the other end         *)

WireCommands ==
    {Ping, DeletePath(p_left_prefs), DeletePath(p_report), DeletePath(p_daemon_plist),
     UninstallApp(p_app), UninstallApp(p_left_cache)}

\* what the daemon of this repository can write
DaemonReplies ==
    {handle_connection(fs, to_vec_command(c)).reply :
        fs \in {{}, {p_app, p_left_prefs, p_left_cache}}, c \in WireCommands}

MaxCut == 6       \* the longest beginning of a reply that arrives cut short

\* what can arrive: nothing, a whole reply, the beginning of one, a request
\* echoed back, bytes that are no JSON
WireReplies ==
    DaemonReplies
    \cup UNION {{SubSeq(b, 1, n) : n \in {m \in 0..MaxCut : m <= Len(b)}} : b \in DaemonReplies}
    \cup {to_vec_command(c) : c \in WireCommands}
    \cup {<<"<", "h", "t", "m", "l", ">">>}

WirePeers == {Refused, BrokenWrite, BrokenRead} \cup {Replied(b) : b \in WireReplies}

WireInit ==
    /\ platform = "macos"
    /\ present = {}
    /\ locked = {}
    /\ store = NoFile
    /\ now = 0
    /\ last = NoCommand
    /\ wiped = {}
    /\ helper = "down"
    /\ sent = <<>>
    /\ \E cmd \in WireCommands, peer \in WirePeers :
          task = [op |-> "send_command", pc |-> "pending", cmd |-> cmd,
                  peer |-> peer, ret |-> [tag |-> "none"]]

SendCommand ==
    /\ task.pc = "pending"
    /\ task' = [task EXCEPT !.pc = "done", !.ret = send_command(task.cmd, task.peer)]
    /\ UNCHANGED <<platform, present, locked, store, now, last, wiped, helper, sent>>

WireNext == SendCommand

SpecWire == WireInit /\ [][WireNext]_vars

\* C16: send_command returns Err when the connection is refused, when the
\* peer closes without writing, and when what it wrote is not a Response; it
\* returns Ok only with the Response the peer wrote.
WireDone == task.op = "send_command" /\ task.pc = "done"
IsWholeResponse(b) ==
    /\ Len(b) >= 5
    /\ \E success \in BOOLEAN :
          b = to_vec_response([success |-> success, message |-> SubSeq(b, 5, Len(b) - 1)])

C16_IpcFailuresAreErr ==
    WireDone =>
        /\ task.ret.tag \in {"Ok", "Err"}
        /\ task.peer.kind # "replied" => task.ret.tag = "Err"
        /\ (task.peer.kind = "replied" /\ task.peer.reply = <<>>) => task.ret.tag = "Err"
        /\ (task.peer.kind = "replied" /\ ~IsWholeResponse(task.peer.reply))
              => task.ret.tag = "Err"
        /\ task.ret.tag = "Ok" =>
              /\ task.peer.kind = "replied"
              /\ to_vec_response(task.ret.value) = task.peer.reply

\* a reply that was cut short inside its message was turned into an Err
C16_Witness ==
    /\ WireDone
    /\ task.peer.kind = "replied"
    /\ Len(task.peer.reply) = MaxCut
    /\ task.peer.reply[2] = "success"
    /\ task.ret.tag = "Err"

----------------------------------------------------------------------------
(* The helper client at work: scanners/uninstaller.rs uninstall_app,       *)
(* scanners/extensions.rs remove_extension, helper_client.rs               *)
(* ensure_helper_installed, one step per await point                       *)

\* Path::file_name and Path::parent of an absolute path
LastSlash(p) == CHOOSE i \in 1..Len(p) : p[i] = "/" /\ \A j \in (i + 1)..Len(p) : p[j] # "/"
file_name(p) == SubSeq(p, LastSlash(p) + 1, Len(p))
parent(p) == SubSeq(p, 1, LastSlash(p) - 1)

\* get_bundle_id: the CFBundleIdentifier of Contents/Info.plist, if it opens
get_bundle_id(fs, app_path) ==
    IF app_path \o <<"/","C","o","n","t","e","n","t","s","/","I","n","f","o",".","p","l","i","s","t">> \in fs
    THEN bundle_id_app ELSE None

\* categorize_leftover
categorize_leftover(p) ==
    IF contains(p, <<"L","o","g","s">>) \/ contains(p, <<"D","i","a","g","n","o","s","t","i","c","R","e","p","o","r","t","s">>)
    THEN "logs"
    ELSE IF contains(p, <<"P","r","e","f","e","r","e","n","c","e","s">>) THEN "preferences"
    ELSE IF contains(p, <<"C","a","c","h","e","s">>) \/ contains(p, <<"C","a","c","h","e">>) THEN "caches"
    ELSE IF contains(p, <<"C","r","a","s","h">>) \/ contains(p, <<"C","r","a","s","h","e","s">>) THEN "crashes"
    ELSE IF contains(p, <<"P","l","u","g","I","n","s">>) \/ contains(p, <<"P","l","u","g","i","n","s">>) THEN "plugins"
    ELSE "other"

\* the directories scan_leftovers lists, in its order
search_paths ==
    << <<"/","U","s","e","r","s","/","a","/","L","i","b","r","a","r","y","/","A","p","p","l","i","c","a","t","i","o","n"," ","S","u","p","p","o","r","t">>,
       <<"/","U","s","e","r","s","/","a","/","L","i","b","r","a","r","y","/","C","a","c","h","e","s">>,
       <<"/","U","s","e","r","s","/","a","/","L","i","b","r","a","r","y","/","P","r","e","f","e","r","e","n","c","e","s">>,
       <<"/","U","s","e","r","s","/","a","/","L","i","b","r","a","r","y","/","L","o","g","s">>,
       <<"/","U","s","e","r","s","/","a","/","L","i","b","r","a","r","y","/","S","a","v","e","d"," ","A","p","p","l","i","c","a","t","i","o","n"," ","S","t","a","t","e">>,
       <<"/","U","s","e","r","s","/","a","/","L","i","b","r","a","r","y","/","C","o","n","t","a","i","n","e","r","s">> >>

RECURSIVE SetToSeq(_)
SetToSeq(S) ==
    IF S = {} THEN <<>> ELSE LET x == CHOOSE y \in S : TRUE IN <<x>> \o SetToSeq(S \ {x})

RECURSIVE Concat(_)
Concat(ss) == IF ss = <<>> THEN <<>> ELSE Head(ss) \o Concat(Tail(ss))

\* scan_leftovers followed by the chain of its groups in uninstall_app: the
\* entries of the listed directories whose name holds the bundle id, grouped.
\* The bundle has no entry in data/app_rules.json.
scan_leftovers(fs, bundle_id) ==
    LET hit(base) == {q \in fs : /\ parent(q) = base
                                 /\ contains(to_lowercase(file_name(q)), to_lowercase(bundle_id))}
        raw == Concat([k \in 1..Len(search_paths) |-> SetToSeq(hit(search_paths[k]))])
        group(g) == SelectSeq(raw, LAMBDA q : categorize_leftover(q) = g)
    IN  group("logs") \o group("preferences") \o group("caches")
          \o group("crashes") \o group("plugins") \o group("other")

\* trash::delete and std::fs::remove_file as the user: whether they succeed
trash_delete_ok(fs, lk, p) == p \in fs /\ p \notin lk
remove_file_ok(fs, lk, p) == p \in fs /\ p \notin Dirs /\ p \notin lk

\* the other end of the socket, and the disk after the daemon handled cmd
Peer(fs, cmd) ==
    IF helper = "up" THEN Replied(handle_connection(fs, to_vec_command(cmd)).reply)
    ELSE Refused
AfterSend(fs, cmd) ==
    IF helper = "up" THEN handle_connection(fs, to_vec_command(cmd)).fs ELSE fs

\* entries of the operation's record
Tried(ev, p, ok) == [ev |-> ev, path |-> p, ok |-> ok, answered |-> FALSE]
Sent(cmd, r) ==
    [ev |-> cmd.action, path |-> cmd.path, ok |-> r.tag = "Ok" /\ r.value.success,
     answered |-> r.tag = "Ok"]

MaxOps == 2       \* the number of operations in a run

HelperDisk ==
    {p_app, p_app_plist, p_left_cache, p_cache, p_cookies, p_left_prefs,
     p_daemon_plist, p_report}

UninstallInputs == {p_app, p_left_cache}
ExtensionInputs == {p_daemon_plist, p_report, p_missing, p_left_cache}
InstallOutcomes == {"no_binary", "no_script", "osascript_error", "script_failed", "installed"}

\* the macOS build; some paths the user may not remove; the daemon may be
\* running already
HelperInit ==
    /\ platform = "macos"
    /\ present = HelperDisk
    /\ locked \in SUBSET {p_app, p_left_prefs, p_daemon_plist, p_report}
    /\ store = NoFile
    /\ now = 0
    /\ last = NoCommand
    /\ wiped = {}
    /\ helper \in {"down", "up"}
    /\ sent = <<>>
    /\ task = NoTask

Finish(t, ret) == [t EXCEPT !.pc = "done", !.ret = ret]

\* remove_extension up to its first await
RemoveExtension(path) ==
    /\ task.pc = "done"
    /\ now < MaxOps
    /\ now' = now + 1
    /\ LET t == [NoTask EXCEPT !.op = "remove_extension", !.path = path]
       IN  IF path \notin present
           THEN /\ task' = Finish(t, Err(<<"Path does not exist">>))
                /\ sent' = <<>>
                /\ present' = present
           ELSE IF remove_file_ok(present, locked, path)
           THEN /\ task' = Finish(t, Ok(<<>>))
                /\ sent' = <<Tried("remove_file", path, TRUE)>>
                /\ present' = present \ {path}
           ELSE /\ task' = [t EXCEPT !.pc = "ping1"]
                /\ sent' = <<Tried("remove_file", path, FALSE)>>
                /\ present' = present
    /\ UNCHANGED <<platform, locked, store, last, wiped, helper>>

\* ensure_helper_installed: the first Ping
EnsurePing1 ==
    /\ task.pc = "ping1"
    /\ LET res == send_command(Ping, Peer(present, Ping))
       IN  /\ sent' = Append(sent, Sent(Ping, res))
           /\ task' = IF res.tag = "Ok" /\ res.value.success
                      THEN [task EXCEPT !.pc = "send_delete", !.ensure = "true"]
                      ELSE [task EXCEPT !.pc = "install"]
    /\ UNCHANGED <<platform, present, locked, store, now, last, wiped, helper>>

\* ensure_helper_installed: the helper binary and the script are looked for and
\* the script is run with administrator privileges; after it succeeded and two
\* seconds passed the daemon may or may not listen
EnsureInstall(outcome, started) ==
    /\ task.pc = "install"
    /\ IF outcome \in {"no_binary", "no_script"}
       THEN /\ sent' = sent
            /\ helper' = helper
            /\ task' = Finish([task EXCEPT !.ensure = "false"],
                              Err(<<"Failed to install execution helper">>))
       ELSE IF outcome = "installed"
       THEN /\ sent' = Append(sent, Tried("install", <<>>, TRUE))
            /\ helper' = IF started THEN "up" ELSE helper
            /\ task' = [task EXCEPT !.pc = "ping2"]
       ELSE /\ sent' = Append(sent, Tried("install", <<>>, FALSE))
            /\ helper' = helper
            /\ task' = Finish([task EXCEPT !.ensure = "false"],
                              Err(<<"Failed to install execution helper">>))
    /\ UNCHANGED <<platform, present, locked, store, now, last, wiped>>

\* the bug of installing again when the second Ping fails
EnsurePing2_retry ==
    /\ task.pc = "ping2"
    /\ LET res == send_command(Ping, Peer(present, Ping))
       IN  /\ sent' = Append(sent, Sent(Ping, res))
           /\ task' = IF res.tag = "Ok"
                      THEN [task EXCEPT !.pc = "send_delete", !.ensure = "true"]
                      ELSE [task EXCEPT !.pc = "install"]
    /\ UNCHANGED <<platform, present, locked, store, now, last, wiped, helper>>

\* ensure_helper_installed: the second Ping
EnsurePing2 ==
    /\ task.pc = "ping2"
    /\ LET res == send_command(Ping, Peer(present, Ping))
       IN  /\ sent' = Append(sent, Sent(Ping, res))
           /\ task' = IF res.tag = "Ok"
                      THEN [task EXCEPT !.pc = "send_delete", !.ensure = "true"]
                      ELSE Finish([task EXCEPT !.ensure = "false"],
                                  Err(<<"Failed to install execution helper">>))
    /\ UNCHANGED <<platform, present, locked, store, now, last, wiped, helper>>

\* remove_extension: DeletePath through the helper
SendDeletePath ==
    /\ task.pc = "send_delete"
    /\ LET cmd == DeletePath(task.path)
           res == send_command(cmd, Peer(present, cmd))
       IN  /\ sent' = Append(sent, Sent(cmd, res))
           /\ present' = AfterSend(present, cmd)
           /\ task' = IF res.tag = "Err"
                      THEN Finish(task, Err(<<"Helper communication failed">>))
                      ELSE IF res.value.success THEN Finish(task, Ok(<<>>))
                      ELSE Finish(task, Err(res.value.message))
    /\ UNCHANGED <<platform, locked, store, now, last, wiped, helper>>

\* uninstall_app: the leftover after the i-th, or the return when there is none
NextLeftover(t) ==
    IF t.i >= Len(t.leftovers)
    THEN Finish([t EXCEPT !.i = t.i + 1], Ok(<<>>))
    ELSE [t EXCEPT !.i = t.i + 1, !.pc = "leftover"]

\* uninstall_app up to its first await: the leftovers are collected and the
\* bundle is moved to the trash
UninstallAppCommand(path) ==
    /\ task.pc = "done"
    /\ now < MaxOps
    /\ now' = now + 1
    /\ LET bundle_id == get_bundle_id(present, path)
           all_leftovers == IF bundle_id = None THEN <<>>
                            ELSE scan_leftovers(present, bundle_id)
           t == [NoTask EXCEPT !.op = "uninstall_app", !.path = path,
                               !.leftovers = all_leftovers]
       IN  IF trash_delete_ok(present, locked, path)
           THEN /\ sent' = <<Tried("trash", path, TRUE)>>
                /\ present' = present \ Below(present, path)
                /\ task' = NextLeftover(t)
           ELSE /\ sent' = <<Tried("trash", path, FALSE)>>
                /\ present' = present
                /\ task' = [t EXCEPT !.pc = "send_uninstall"]
    /\ UNCHANGED <<platform, locked, store, last, wiped, helper>>

\* uninstall_app: UninstallApp through the helper
SendUninstallApp ==
    /\ task.pc = "send_uninstall"
    /\ LET cmd == UninstallApp(task.path)
           res == send_command(cmd, Peer(present, cmd))
       IN  /\ sent' = Append(sent, Sent(cmd, res))
           /\ present' = AfterSend(present, cmd)
           /\ task' = IF res.tag = "Err" THEN Finish(task, Err(<<"Helper failed">>))
                      ELSE IF ~res.value.success
                      THEN Finish(task, Err(<<"Uninstallation failed">>))
                      ELSE NextLeftover(task)
    /\ UNCHANGED <<platform, locked, store, now, last, wiped, helper>>

\* uninstall_app: the i-th leftover is moved to the trash
TrashLeftover ==
    /\ task.pc = "leftover"
    /\ LET l_path == task.leftovers[task.i]
       IN  IF trash_delete_ok(present, locked, l_path)
           THEN /\ sent' = Append(sent, Tried("trash", l_path, TRUE))
                /\ present' = present \ Below(present, l_path)
                /\ task' = NextLeftover(task)
           ELSE /\ sent' = Append(sent, Tried("trash", l_path, FALSE))
                /\ present' = present
                /\ task' = [task EXCEPT !.pc = "send_leftover"]
    /\ UNCHANGED <<platform, locked, store, now, last, wiped, helper>>

\* the bug of sending the leftovers that follow to the helper as well
SendLeftover_rest ==
    /\ task.pc = "send_leftover"
    /\ LET rest == SubSeq(task.leftovers, task.i, Len(task.leftovers))
           cmds == [k \in 1..Len(rest) |-> DeletePath(rest[k])]
       IN  /\ sent' = sent \o [k \in 1..Len(rest) |->
                                 Sent(cmds[k], send_command(cmds[k], Peer(present, cmds[k])))]
           /\ present' = present
           /\ task' = Finish(task, Ok(<<>>))
    /\ UNCHANGED <<platform, locked, store, now, last, wiped, helper>>

\* the bug of returning the failure of a leftover as the result
SendLeftover_reported ==
    /\ task.pc = "send_leftover"
    /\ LET cmd == DeletePath(task.leftovers[task.i])
           res == send_command(cmd, Peer(present, cmd))
       IN  /\ sent' = Append(sent, Sent(cmd, res))
           /\ present' = AfterSend(present, cmd)
           /\ task' = IF res.tag = "Err" \/ ~res.value.success
                      THEN Finish(task, Err(<<"Leftover failed">>))
                      ELSE NextLeftover(task)
    /\ UNCHANGED <<platform, locked, store, now, last, wiped, helper>>

\* uninstall_app: DeletePath for the i-th leftover, its result dropped
SendLeftover ==
    /\ task.pc = "send_leftover"
    /\ LET cmd == DeletePath(task.leftovers[task.i])
           res == send_command(cmd, Peer(present, cmd))
       IN  /\ sent' = Append(sent, Sent(cmd, res))
           /\ present' = AfterSend(present, cmd)
           /\ task' = NextLeftover(task)
    /\ UNCHANGED <<platform, locked, store, now, last, wiped, helper>>

\* the daemon process ends
HelperExit ==
    /\ helper = "up"
    /\ helper' = "down"
    /\ UNCHANGED <<platform, present, locked, store, now, last, wiped, sent, task>>

ClientStep ==
    \/ EnsurePing1
    \/ \E outcome \in InstallOutcomes, started \in BOOLEAN : EnsureInstall(outcome, started)
    \/ EnsurePing2
    \/ SendDeletePath
    \/ SendUninstallApp
    \/ TrashLeftover
    \/ SendLeftover

HelperNext ==
    \/ \E path \in ExtensionInputs : RemoveExtension(path)
    \/ \E path \in UninstallInputs : UninstallAppCommand(path)
    \/ ClientStep
    \/ HelperExit

SpecHelper == HelperInit /\ [][HelperNext]_vars

----------------------------------------------------------------------------
(* Writers of the audit store side by side: confirm_delete on the command  *)
(* runtime and handle_new_file on the watcher thread.  Each one loads the  *)
(* document, changes its copy and saves it; nothing is held in between.    *)

\* a file that appears in the downloads directory: /Users/a/Downloads/setup.dmg
p_download ==
    <<"/","U","s","e","r","s","/","a","/","D","o","w","n","l","o","a","d","s","/","s","e","t","u","p",".","d","m","g">>

\* an application that appears: /Applications/Y.app
p_new_app ==
    <<"/","A","p","p","l","i","c","a","t","i","o","n","s","/","Y",".","a","p","p">>

\* ContextStore::record_system_event: the file it leaves
record_system_event(ctx, event) ==
    save([ctx EXCEPT !.system_events = DrainTo(Append(@, event), MaxSystemEvents)])

\* the SystemEvent handle_new_file builds for a path
SystemEventFor(path, timestamp) ==
    [timestamp |-> timestamp,
     event_type |-> IF path = p_new_app THEN "app_installed" ELSE "file_downloaded",
     path |-> path]

Writers == {1, 2}

\* what a writer is about to record: the paths confirm_delete has just moved
\* to the trash, or the path the watcher was told about
WriterJobs ==
    {[kind |-> "confirm_delete", paths |-> ps, bytes |-> 1] :
        ps \in {<<p_cache>>, <<p_cookies>>, <<p_logs>>}}
    \cup {[kind |-> "handle_new_file", paths |-> <<p>>, bytes |-> 0] :
        p \in {p_download, p_new_app}}

\* the store file when the writers start: none, or one with a history
StoreFiles ==
    {NoFile,
     Saved([ContextStoreDefault EXCEPT
              !.deletion_history = <<[timestamp |-> 0, paths_deleted |-> <<p_logs_doc>>,
                                      total_bytes_freed |-> 8]>>])}

StoreInit ==
    /\ platform = "macos"
    /\ present = {}
    /\ locked = {}
    /\ store \in StoreFiles
    /\ now = 0
    /\ last = [NoCommand EXCEPT !.op = "writers", !.pre_store = store]
    /\ wiped = {}
    /\ helper = "down"
    /\ sent = <<>>
    /\ task \in [Writers -> {[job |-> j, pc |-> "start", ctx |-> ContextStoreDefault] :
                                j \in WriterJobs}]

\* let mut ctx = ContextStore::load();
WriterLoad(w) ==
    /\ task[w].pc = "start"
    /\ task' = [task EXCEPT ![w].pc = "loaded", ![w].ctx = load(store)]
    /\ UNCHANGED <<platform, present, locked, store, now, last, wiped, helper, sent>>

\* ctx.record_deletion(..) / ctx.record_system_event(..), each ending in save()
WriterRecord(w) ==
    /\ task[w].pc = "loaded"
    /\ now' = now + 1
    /\ store' = IF task[w].job.kind = "confirm_delete"
                THEN record_deletion(task[w].ctx, task[w].job.paths, task[w].job.bytes, now + 1)
                ELSE record_system_event(task[w].ctx,
                                         SystemEventFor(task[w].job.paths[1], now + 1))
    /\ task' = [task EXCEPT ![w].pc = "done"]
    /\ UNCHANGED <<platform, present, locked, last, wiped, helper, sent>>

StoreNext ==
    \/ \E w \in Writers : WriterLoad(w)
    \/ \E w \in Writers : WriterRecord(w)

SpecStore == StoreInit /\ [][StoreNext]_vars

\* C18: when two writers of the audit store have both completed, the
\* persisted store holds what each of them recorded besides what it held
\* before: no update is lost.
WritersDone == last.op = "writers" /\ \A w \in Writers : task[w].pc = "done"
WritersOf(kind) == {w \in Writers : task[w].job.kind = kind}
C18_NoLostUpdate ==
    WritersDone =>
        LET before == load(last.pre_store)
            after == load(store)
        IN  /\ Len(after.deletion_history)
                 = Len(before.deletion_history) + Cardinality(WritersOf("confirm_delete"))
            /\ Len(after.system_events)
                 = Len(before.system_events) + Cardinality(WritersOf("handle_new_file"))
            /\ \A w \in WritersOf("confirm_delete") :
                  \E k \in 1..Len(after.deletion_history) :
                      after.deletion_history[k].paths_deleted = task[w].job.paths
            /\ \A w \in WritersOf("handle_new_file") :
                  \E k \in 1..Len(after.system_events) :
                      after.system_events[k].path = task[w].job.paths[1]

----------------------------------------------------------------------------
(* The histories of the audit store as they fill up: record_deletion and   *)
(* record_system_event called again and again on a store that began empty  *)

MaxDeletions == 102   \* record_deletion calls in a run
MaxEvents == 202      \* record_system_event calls in a run

RingInit ==
    /\ platform = "macos"
    /\ present = {}
    /\ locked = {}
    /\ store = NoFile
    /\ now = 0
    /\ last = [NoCommand EXCEPT !.op = "recording"]
    /\ wiped = {}
    /\ helper = "down"
    /\ sent = [deletion |-> <<>>, event |-> <<>>]
    /\ task = [deletions |-> 0, events |-> 0]

\* the n-th deletion recorded: a path of the modelled disk and n bytes
RecordDeletion ==
    /\ task.deletions < MaxDeletions
    /\ LET n == task.deletions + 1
           paths == <<Universe[(n % Len(Universe)) + 1]>>
       IN  /\ store' = record_deletion(load(store), paths, n, n)
           /\ sent' = [sent EXCEPT !.deletion =
                           Append(@, [timestamp |-> n, paths_deleted |-> paths,
                                      total_bytes_freed |-> n])]
           /\ task' = [task EXCEPT !.deletions = n]
    /\ now' = now + 1
    /\ UNCHANGED <<platform, present, locked, last, wiped, helper>>

\* the m-th system event recorded
RecordSystemEvent ==
    /\ task.events < MaxEvents
    /\ LET m == task.events + 1
           event == SystemEventFor(IF m % 2 = 0 THEN p_new_app ELSE p_download, m)
       IN  /\ store' = record_system_event(load(store), event)
           /\ sent' = [sent EXCEPT !.event = Append(@, event)]
           /\ task' = [task EXCEPT !.events = m]
    /\ now' = now + 1
    /\ UNCHANGED <<platform, present, locked, last, wiped, helper>>

RingNext == RecordDeletion \/ RecordSystemEvent

SpecRing == RingInit /\ [][RingNext]_vars

\* C19: after n record_deletion calls and m record_system_event calls on a
\* store that began empty, deletion_history is the last min(n, 100) deletion
\* records in the order they were recorded, and system_events the last
\* min(m, 200) events in that order.
Recording == last.op = "recording"
LastOf(s, cap) ==
    LET keep == IF Len(s) < cap THEN Len(s) ELSE cap
    IN  [k \in 1..keep |-> s[Len(s) - keep + k]]
C19_RingBuffers ==
    Recording =>
        /\ load(store).deletion_history = LastOf(sent.deletion, 100)
        /\ load(store).system_events = LastOf(sent.event, 200)
        /\ Len(load(store).deletion_history) <= 100
        /\ Len(load(store).system_events) <= 200

\* 101 deletions and 201 events were recorded: the first of each is gone
C19_Witness ==
    /\ Recording
    /\ task.deletions = 101
    /\ Len(load(store).deletion_history) = 100
    /\ load(store).deletion_history[1].timestamp = 2
    /\ task.events = 201
    /\ Len(load(store).system_events) = 200
    /\ load(store).system_events[1].timestamp = 2

----------------------------------------------------------------------------
(* Reading and resetting the audit store: lib.rs get_mcp_context and       *)
(* reset_mcp_context_command, ContextStore::clear                          *)

\* the bug of resetting the preferences with the histories
clear_all(ctx) == save(ContextStoreDefault)

\* ContextStore::clear: the file it leaves
clear(ctx) ==
    save([ctx EXCEPT !.last_scan_timestamp = None,
                     !.deletion_history = <<>>,
                     !.system_events = <<>>])

\* serde_json::to_value(&ctx): Option::None becomes null
to_value(ctx) ==
    [ctx EXCEPT !.last_scan_timestamp = IF @ = None THEN "null" ELSE @]

\* get_mcp_context: what it returns
get_mcp_context(file) == Ok(to_value(load(file)))

\* reset_mcp_context_command: the file it leaves and what it returns
reset_mcp_context_command(file) ==
    [store |-> clear(load(file)), ret |-> Ok(to_value(clear(load(file)).doc))]

MaxResets == 2    \* the number of commands in a run

\* documents the store file may hold when a command starts
StoredPreferences ==
    {[always_skip_patterns |-> ps, auto_confirm_caches |-> ac] :
        ps \in {<<>>, <<"*.log">>, <<"node_modules", ".git">>}, ac \in BOOLEAN}
StoredDeletions ==
    {<<>>,
     <<[timestamp |-> 1, paths_deleted |-> <<p_cache>>, total_bytes_freed |-> 1]>>,
     <<[timestamp |-> 1, paths_deleted |-> <<p_cache>>, total_bytes_freed |-> 1],
       [timestamp |-> 2, paths_deleted |-> <<p_logs, p_cookies>>, total_bytes_freed |-> 6]>>}
StoredEvents == {<<>>, <<SystemEventFor(p_download, 1)>>}
StoredDocuments ==
    {[last_scan_timestamp |-> ts, deletion_history |-> dh, system_events |-> se,
      user_preferences |-> up] :
        ts \in {None, "2026-01-01T00:00:00+00:00"}, dh \in StoredDeletions,
        se \in StoredEvents, up \in StoredPreferences}

ResetInit ==
    /\ platform = "macos"
    /\ present = {}
    /\ locked = {}
    /\ store \in {NoFile} \cup {Saved(doc) : doc \in StoredDocuments}
    /\ now = 0
    /\ last = NoCommand
    /\ wiped = {}
    /\ IpcIdle

GetMcpContext ==
    /\ now < MaxResets
    /\ now' = now + 1
    /\ last' = [NoCommand EXCEPT !.op = "get_mcp_context", !.pre_store = store,
                                 !.ret = get_mcp_context(store)]
    /\ UNCHANGED <<platform, present, locked, store>>
    /\ UNCHANGED aside

ResetMcpContextCommand ==
    /\ now < MaxResets
    /\ now' = now + 1
    /\ LET out == reset_mcp_context_command(store)
       IN  /\ store' = out.store
           /\ last' = [NoCommand EXCEPT !.op = "reset_mcp_context_command",
                                        !.pre_store = store, !.ret = out.ret]
    /\ UNCHANGED <<platform, present, locked>>
    /\ UNCHANGED aside

ResetNext == GetMcpContext \/ ResetMcpContextCommand

SpecReset == ResetInit /\ [][ResetNext]_vars

\* C20: the reset empties deletion_history and system_events and clears
\* last_scan_timestamp, and leaves user_preferences as they were, in the
\* document it returns and in the persisted store.
WasReset == last.op = "reset_mcp_context_command"
----------------------------------------------------------------------------
(* The privileged daemon: bin/alto_helper.rs main and handle_connection.   *)
(* main runs the start-up steps and then the accept loop; every accepted   *)
(* connection gets a task of its own (tokio::spawn) on the runtime's       *)
(* worker threads.  A task at stream.read holds no thread; a task inside   *)
(* fs::remove_dir_all / fs::remove_file holds one until the call returns.  *)

WorkerThreads == 2    \* worker threads of the #[tokio::main] runtime
MaxAcceptErrors == 1  \* failed accepts in a run

Conns == 1..(WorkerThreads + 1)

\* what the client of a connection does: it writes bytes and waits for the
\* reply, it closes without writing, or it stays connected and writes nothing
ClientWrites(b) == [kind |-> "writes", bytes |-> b]
ClientCloses == [kind |-> "closes", bytes |-> <<>>]
ClientSilent == [kind |-> "silent", bytes |-> <<>>]

DaemonRequests ==
    {to_vec_command(Ping), to_vec_command(DeletePath(p_left_prefs)),
     to_vec_command(DeletePath(p_missing)), to_vec_command(UninstallApp(p_app)),
     <<"<", "h", "t", "m", "l", ">">>,
     SubSeq(to_vec_command(DeletePath(p_left_prefs)), 1, 7)}

ClientPlans == {ClientWrites(b) : b \in DaemonRequests} \cup {ClientCloses, ClientSilent}

NoConn ==
    [state |-> "free", plan |-> ClientSilent, decoded |-> 0, written |-> 0,
     reply |-> <<>>, pre_fs |-> {}, post_fs |-> {}]

DaemonDisk == {p_app, p_app_plist, p_left_prefs}

\* the daemon was launched and has run none of its start-up steps yet
DaemonInit ==
    /\ platform = "macos"
    /\ present = DaemonDisk
    /\ locked = {}
    /\ store = NoFile
    /\ now = 0
    /\ last = [NoCommand EXCEPT !.op = "alto_helper"]
    /\ wiped = {}
    /\ helper = "down"
    /\ sent = <<>>
    /\ task = [c \in Conns |-> NoConn]

Exit(cause) ==
    /\ helper' = "exited"
    /\ last' = [last EXCEPT !.ret = [tag |-> cause]]

\* main: the old socket file is removed if it is there
DaemonCleanup(ok) ==
    /\ helper = "down"
    /\ IF ok THEN helper' = "cleaned" /\ last' = last ELSE Exit("remove_file")
    /\ UNCHANGED <<platform, present, locked, store, now, wiped, sent, task>>

\* main: UnixListener::bind
DaemonBind(ok) ==
    /\ helper = "cleaned"
    /\ IF ok THEN helper' = "bound" /\ last' = last ELSE Exit("bind")
    /\ UNCHANGED <<platform, present, locked, store, now, wiped, sent, task>>

\* main: fs::set_permissions(.., 0o777), then the accept loop is entered
DaemonSetPermissions(ok) ==
    /\ helper = "bound"
    /\ IF ok THEN helper' = "up" /\ last' = last ELSE Exit("set_permissions")
    /\ UNCHANGED <<platform, present, locked, store, now, wiped, sent, task>>

\* a client connects to the socket
ClientConnect(c, plan) ==
    /\ helper = "up"
    /\ task[c].state = "free"
    /\ task' = [task EXCEPT ![c] = [NoConn EXCEPT !.state = "queued", !.plan = plan]]
    /\ UNCHANGED <<platform, present, locked, store, now, last, wiped, helper, sent>>

\* the bug of handling a connection inside the accept loop, with no task of
\* its own
Accept_inline(c) ==
    /\ helper = "up"
    /\ task[c].state = "queued"
    /\ \A d \in Conns : task[d].state \notin {"accepted", "executing"}
    /\ task' = [task EXCEPT ![c].state = "accepted"]
    /\ UNCHANGED <<platform, present, locked, store, now, last, wiped, helper, sent>>

\* main: listener.accept() returns a stream, its task is spawned
Accept(c) ==
    /\ helper = "up"
    /\ task[c].state = "queued"
    /\ task' = [task EXCEPT ![c].state = "accepted"]
    /\ UNCHANGED <<platform, present, locked, store, now, last, wiped, helper, sent>>

\* main: listener.accept() returns an error, which is printed
AcceptFailed ==
    /\ helper = "up"
    /\ now < MaxAcceptErrors
    /\ now' = now + 1
    /\ UNCHANGED <<platform, present, locked, store, last, wiped, helper, sent, task>>

Executing == {c \in Conns : task[c].state = "executing"}

\* handle_connection from stream.read to the match on the request: nothing
\* read ends it, so does a request that does not decode; Ping is answered;
\* DeletePath and UninstallApp enter the filesystem call
HandlerRead(c) ==
    /\ task[c].state = "accepted"
    /\ task[c].plan.kind # "silent"
    /\ Cardinality(Executing) < WorkerThreads
    /\ LET b == task[c].plan.bytes
           out == handle_connection(present, b)
       IN  task' = IF Len(b) = 0 \/ ~command_decodes(b)
                   THEN [task EXCEPT ![c].state = "closed", ![c].reply = out.reply,
                                     ![c].pre_fs = present, ![c].post_fs = present]
                   ELSE IF from_slice_command(b).action = "Ping"
                   THEN [task EXCEPT ![c].state = "closed", ![c].decoded = @ + 1,
                                     ![c].written = @ + 1, ![c].reply = out.reply,
                                     ![c].pre_fs = present, ![c].post_fs = out.fs]
                   ELSE [task EXCEPT ![c].state = "executing", ![c].decoded = @ + 1]
    /\ UNCHANGED <<platform, present, locked, store, now, last, wiped, helper, sent>>

\* the bug of keeping the connection to read a further command from it
HandlerFinish_keepalive(c) ==
    /\ task[c].state = "executing"
    /\ LET out == handle_connection(present, task[c].plan.bytes)
       IN  /\ present' = out.fs
           /\ task' = [task EXCEPT ![c].state = "accepted", ![c].written = @ + 1,
                                   ![c].reply = out.reply,
                                   ![c].pre_fs = present, ![c].post_fs = out.fs]
    /\ UNCHANGED <<platform, locked, store, now, last, wiped, helper, sent>>

\* handle_connection from the return of the filesystem call to the end: the
\* response is written and the connection closed
HandlerFinish(c) ==
    /\ task[c].state = "executing"
    /\ LET out == handle_connection(present, task[c].plan.bytes)
       IN  /\ present' = out.fs
           /\ task' = [task EXCEPT ![c].state = "closed", ![c].written = @ + 1,
                                   ![c].reply = out.reply,
                                   ![c].pre_fs = present, ![c].post_fs = out.fs]
    /\ UNCHANGED <<platform, locked, store, now, last, wiped, helper, sent>>

DaemonNext ==
    \/ \E ok \in BOOLEAN : DaemonCleanup(ok)
    \/ \E ok \in BOOLEAN : DaemonBind(ok)
    \/ \E ok \in BOOLEAN : DaemonSetPermissions(ok)
    \/ \E c \in Conns, plan \in ClientPlans : ClientConnect(c, plan)
    \/ \E c \in Conns : Accept(c)
    \/ AcceptFailed
    \/ \E c \in Conns : HandlerRead(c)
    \/ \E c \in Conns : HandlerFinish(c)

SpecDaemon == DaemonInit /\ [][DaemonNext]_vars

----------------------------------------------------------------------------
(* The junk scanner: scanners/junk.rs, macOS build                         *)

MAX_DEPTH == 8
MAX_FILES_PER_DIR == 500
MAX_TOTAL_FILES == 5000

\* JUNK_TEMPLATES of the macOS build, relative to the home directory:

\*   Library/Caches
\*   Library/Logs
\*   Library/Application Support/Google/Chrome/Default/Cache
\*   Library/Application Support/Google/Chrome/Default/Code Cache
\*   Library/Application Support/BraveSoftware/Brave-Browser/Default/Cache
\*   Library/Application Support/BraveSoftware/Brave-Browser/Default/Code Cache
\*   Library/Caches/com.apple.Safari
\*   Library/Containers/com.apple.Safari/Data/Library/Caches
\*   Library/Application Support/Firefox/Profiles
\*   Library/Application Support/Slack/Cache
\*   Library/Application Support/Slack/Service Worker/CacheStorage
\*   Library/Application Support/Code/Cache
\*   Library/Application Support/Code/CachedData
\*   Library/Application Support/Code/CachedExtensions
\*   Library/Application Support/Code/Code Cache
\*   Library/Application Support/Spotify/PersistentCache
\*   Library/Application Support/Zoom/logs
\*   Library/Application Support/Discord/Cache
\*   Library/Application Support/Discord/Code Cache
\*   .npm/_cacache
\*   .yarn/cache
\*   .pnpm-store
\*   Library/Developer/Xcode/DerivedData
\*   Library/Developer/Xcode/Archives
\*   Library/Developer/Xcode/iOS DeviceSupport
\*   Library/Application Support/CrashReporter
\*   Library/Saved Application State
\*   .Trash
\*   Desktop
\*   Desktop/screenshots
\*   Downloads
\*   Library/Caches/com.apple.SoftwareUpdate
\*   Library/Caches/com.apple.Safari/Localization
JUNK_TEMPLATES ==
    <<
      <<"L","i","b","r","a","r","y","/","C","a","c","h","e","s">>,
      <<"L","i","b","r","a","r","y","/","L","o","g","s">>,
      <<"L","i","b","r","a","r","y","/","A","p","p","l","i","c","a","t","i","o","n"," ","S","u","p","p","o","r","t","/","G","o","o","g","l","e","/","C","h","r","o","m","e","/","D","e","f","a","u","l","t","/","C","a","c","h","e">>,
      <<"L","i","b","r","a","r","y","/","A","p","p","l","i","c","a","t","i","o","n"," ","S","u","p","p","o","r","t","/","G","o","o","g","l","e","/","C","h","r","o","m","e","/","D","e","f","a","u","l","t","/","C","o","d","e"," ","C","a","c","h","e">>,
      <<"L","i","b","r","a","r","y","/","A","p","p","l","i","c","a","t","i","o","n"," ","S","u","p","p","o","r","t","/","B","r","a","v","e","S","o","f","t","w","a","r","e","/","B","r","a","v","e","-","B","r","o","w","s","e","r","/","D","e","f","a","u","l","t","/","C","a","c","h","e">>,
      <<"L","i","b","r","a","r","y","/","A","p","p","l","i","c","a","t","i","o","n"," ","S","u","p","p","o","r","t","/","B","r","a","v","e","S","o","f","t","w","a","r","e","/","B","r","a","v","e","-","B","r","o","w","s","e","r","/","D","e","f","a","u","l","t","/","C","o","d","e"," ","C","a","c","h","e">>,
      <<"L","i","b","r","a","r","y","/","C","a","c","h","e","s","/","c","o","m",".","a","p","p","l","e",".","S","a","f","a","r","i">>,
      <<"L","i","b","r","a","r","y","/","C","o","n","t","a","i","n","e","r","s","/","c","o","m",".","a","p","p","l","e",".","S","a","f","a","r","i","/","D","a","t","a","/","L","i","b","r","a","r","y","/","C","a","c","h","e","s">>,
      <<"L","i","b","r","a","r","y","/","A","p","p","l","i","c","a","t","i","o","n"," ","S","u","p","p","o","r","t","/","F","i","r","e","f","o","x","/","P","r","o","f","i","l","e","s">>,
      <<"L","i","b","r","a","r","y","/","A","p","p","l","i","c","a","t","i","o","n"," ","S","u","p","p","o","r","t","/","S","l","a","c","k","/","C","a","c","h","e">>,
      <<"L","i","b","r","a","r","y","/","A","p","p","l","i","c","a","t","i","o","n"," ","S","u","p","p","o","r","t","/","S","l","a","c","k","/","S","e","r","v","i","c","e"," ","W","o","r","k","e","r","/","C","a","c","h","e","S","t","o","r","a","g","e">>,
      <<"L","i","b","r","a","r","y","/","A","p","p","l","i","c","a","t","i","o","n"," ","S","u","p","p","o","r","t","/","C","o","d","e","/","C","a","c","h","e">>,
      <<"L","i","b","r","a","r","y","/","A","p","p","l","i","c","a","t","i","o","n"," ","S","u","p","p","o","r","t","/","C","o","d","e","/","C","a","c","h","e","d","D","a","t","a">>,
      <<"L","i","b","r","a","r","y","/","A","p","p","l","i","c","a","t","i","o","n"," ","S","u","p","p","o","r","t","/","C","o","d","e","/","C","a","c","h","e","d","E","x","t","e","n","s","i","o","n","s">>,
      <<"L","i","b","r","a","r","y","/","A","p","p","l","i","c","a","t","i","o","n"," ","S","u","p","p","o","r","t","/","C","o","d","e","/","C","o","d","e"," ","C","a","c","h","e">>,
      <<"L","i","b","r","a","r","y","/","A","p","p","l","i","c","a","t","i","o","n"," ","S","u","p","p","o","r","t","/","S","p","o","t","i","f","y","/","P","e","r","s","i","s","t","e","n","t","C","a","c","h","e">>,
      <<"L","i","b","r","a","r","y","/","A","p","p","l","i","c","a","t","i","o","n"," ","S","u","p","p","o","r","t","/","Z","o","o","m","/","l","o","g","s">>,
      <<"L","i","b","r","a","r","y","/","A","p","p","l","i","c","a","t","i","o","n"," ","S","u","p","p","o","r","t","/","D","i","s","c","o","r","d","/","C","a","c","h","e">>,
      <<"L","i","b","r","a","r","y","/","A","p","p","l","i","c","a","t","i","o","n"," ","S","u","p","p","o","r","t","/","D","i","s","c","o","r","d","/","C","o","d","e"," ","C","a","c","h","e">>,
      <<".","n","p","m","/","_","c","a","c","a","c","h","e">>,
      <<".","y","a","r","n","/","c","a","c","h","e">>,
      <<".","p","n","p","m","-","s","t","o","r","e">>,
      <<"L","i","b","r","a","r","y","/","D","e","v","e","l","o","p","e","r","/","X","c","o","d","e","/","D","e","r","i","v","e","d","D","a","t","a">>,
      <<"L","i","b","r","a","r","y","/","D","e","v","e","l","o","p","e","r","/","X","c","o","d","e","/","A","r","c","h","i","v","e","s">>,
      <<"L","i","b","r","a","r","y","/","D","e","v","e","l","o","p","e","r","/","X","c","o","d","e","/","i","O","S"," ","D","e","v","i","c","e","S","u","p","p","o","r","t">>,
      <<"L","i","b","r","a","r","y","/","A","p","p","l","i","c","a","t","i","o","n"," ","S","u","p","p","o","r","t","/","C","r","a","s","h","R","e","p","o","r","t","e","r">>,
      <<"L","i","b","r","a","r","y","/","S","a","v","e","d"," ","A","p","p","l","i","c","a","t","i","o","n"," ","S","t","a","t","e">>,
      <<".","T","r","a","s","h">>,
      <<"D","e","s","k","t","o","p">>,
      <<"D","e","s","k","t","o","p","/","s","c","r","e","e","n","s","h","o","t","s">>,
      <<"D","o","w","n","l","o","a","d","s">>,
      <<"L","i","b","r","a","r","y","/","C","a","c","h","e","s","/","c","o","m",".","a","p","p","l","e",".","S","o","f","t","w","a","r","e","U","p","d","a","t","e">>,
      <<"L","i","b","r","a","r","y","/","C","a","c","h","e","s","/","c","o","m",".","a","p","p","l","e",".","S","a","f","a","r","i","/","L","o","c","a","l","i","z","a","t","i","o","n">>
    >>

\* is_whitelisted's list: ".DS_Store", "localized", "Icon\r", ".lock",
\* "settings.json", "config.json", "User Data", "bookmarks", "Login Data",
\* "desktop.ini", "ntuser.dat"
whitelist ==
    {
      <<".","D","S","_","S","t","o","r","e">>,
      <<"l","o","c","a","l","i","z","e","d">>,
      <<"I","c","o","n","\r">>,
      <<".","l","o","c","k">>,
      <<"s","e","t","t","i","n","g","s",".","j","s","o","n">>,
      <<"c","o","n","f","i","g",".","j","s","o","n">>,
      <<"U","s","e","r"," ","D","a","t","a">>,
      <<"b","o","o","k","m","a","r","k","s">>,
      <<"L","o","g","i","n"," ","D","a","t","a">>,
      <<"d","e","s","k","t","o","p",".","i","n","i">>,
      <<"n","t","u","s","e","r",".","d","a","t">>
    }

\* the extensions scan_junk keeps in Downloads: dmg, pkg, iso, zip, tar, gz, 7z, rar
installer_extensions ==
    {
      <<"d","m","g">>,
      <<"p","k","g">>,
      <<"i","s","o">>,
      <<"z","i","p">>,
      <<"t","a","r">>,
      <<"g","z">>,
      <<"7","z">>,
      <<"r","a","r">>
    }

s_Desktop == <<"D","e","s","k","t","o","p">>
s_Desktop_screenshots == <<"D","e","s","k","t","o","p","/","s","c","r","e","e","n","s","h","o","t","s">>
s_Downloads == <<"D","o","w","n","l","o","a","d","s">>
s_Screenshot == <<"S","c","r","e","e","n","s","h","o","t">>
s_cookies == <<"c","o","o","k","i","e","s">>
s_history == <<"h","i","s","t","o","r","y">>
s_plist == <<"p","l","i","s","t">>
s_Library_Preferences == <<"L","i","b","r","a","r","y","/","P","r","e","f","e","r","e","n","c","e","s">>

\* /Users/a/Library/Caches/junk.tmp
j_junk ==
    <<"/","U","s","e","r","s","/","a","/","L","i","b","r","a","r","y","/","C","a","c","h","e","s","/","j","u","n","k",".","t","m","p">>

\* /Users/a/Library/Caches/.DS_Store
j_ds_store ==
    <<"/","U","s","e","r","s","/","a","/","L","i","b","r","a","r","y","/","C","a","c","h","e","s","/",".","D","S","_","S","t","o","r","e">>

\* /Users/a/Library/Caches/Cookies
j_cookies ==
    <<"/","U","s","e","r","s","/","a","/","L","i","b","r","a","r","y","/","C","a","c","h","e","s","/","C","o","o","k","i","e","s">>

\* /Users/a/Library/Caches/com.apple.Safari/HISTORY
j_safari_history ==
    <<"/","U","s","e","r","s","/","a","/","L","i","b","r","a","r","y","/","C","a","c","h","e","s","/","c","o","m",".","a","p","p","l","e",".","S","a","f","a","r","i","/","H","I","S","T","O","R","Y">>

\* /Users/a/Library/Caches/com.apple.Safari/data.bin
j_safari_data ==
    <<"/","U","s","e","r","s","/","a","/","L","i","b","r","a","r","y","/","C","a","c","h","e","s","/","c","o","m",".","a","p","p","l","e",".","S","a","f","a","r","i","/","d","a","t","a",".","b","i","n">>

\* /Users/a/Desktop/Screenshot 1.png
j_screenshot ==
    <<"/","U","s","e","r","s","/","a","/","D","e","s","k","t","o","p","/","S","c","r","e","e","n","s","h","o","t"," ","1",".","p","n","g">>

\* /Users/a/Desktop/notes.txt
j_desktop_note ==
    <<"/","U","s","e","r","s","/","a","/","D","e","s","k","t","o","p","/","n","o","t","e","s",".","t","x","t">>

\* /Users/a/Downloads/a.dmg
j_installer ==
    <<"/","U","s","e","r","s","/","a","/","D","o","w","n","l","o","a","d","s","/","a",".","d","m","g">>

\* /Users/a/Library/Application Support/Google/Chrome/Default/Cache/Login Data
j_chrome_login ==
    <<"/","U","s","e","r","s","/","a","/","L","i","b","r","a","r","y","/","A","p","p","l","i","c","a","t","i","o","n"," ","S","u","p","p","o","r","t","/","G","o","o","g","l","e","/","C","h","r","o","m","e","/","D","e","f","a","u","l","t","/","C","a","c","h","e","/","L","o","g","i","n"," ","D","a","t","a">>

\* /Users/a/Library/Preferences/com.app.plist
j_plist ==
    <<"/","U","s","e","r","s","/","a","/","L","i","b","r","a","r","y","/","P","r","e","f","e","r","e","n","c","e","s","/","c","o","m",".","a","p","p",".","p","l","i","s","t">>


\* Path::extension().and_then(to_str).unwrap_or(""): the text after the last
\* dot of the file name, unless the name has no dot or only a leading one
extension(name) ==
    LET dots == {i \in 1..Len(name) : name[i] = "."}
        last_dot == CHOOSE i \in dots : \A j \in dots : j <= i
    IN  IF dots = {} \/ last_dot = 1 THEN <<>>
        ELSE SubSeq(name, last_dot + 1, Len(name))

\* str::eq_ignore_ascii_case
eq_ignore_ascii_case(a, b) == to_lowercase(a) = to_lowercase(b)

\* the bug of a list that has lost its first entry
is_whitelisted_short(name) == name \in whitelist \ {<<".","D","S","_","S","t","o","r","e">>}

is_whitelisted(name) == name \in whitelist

\* the depth WalkDir is given for a template
depth_of(tpl) ==
    IF tpl = s_Desktop THEN 1
    ELSE IF tpl = s_Desktop_screenshots THEN 2
    ELSE MAX_DEPTH

\* the files WalkDir yields below full: those at most depth levels down
walk(fs, full, depth) ==
    {q \in fs :
        /\ starts_with(q, full \o <<"/">>)
        /\ Cardinality({i \in (Len(full) + 1)..Len(q) : q[i] = "/"}) <= depth}

\* fs::metadata(path).len(): a file of the layout is empty or holds 4 bytes
len_of(disk, path) == IF path \in disk.empty THEN 0 ELSE 4

\* scan_junk's checks on the name of a file, lines 197-213: TRUE when the
\* file goes on to be measured
keeps(tpl, path) ==
    LET name == file_name(path)
    IN  /\ ~is_whitelisted(name)
        /\ ~eq_ignore_ascii_case(name, s_cookies)
        /\ ~eq_ignore_ascii_case(name, s_history)
        /\ tpl = s_Desktop => starts_with(name, s_Screenshot)
        /\ contains(tpl, s_Downloads) =>
              to_lowercase(extension(name)) \in installer_extensions

ScannedItem(disk, path) ==
    [path |-> path, size_bytes |-> len_of(disk, path), is_directory |-> FALSE]

\* the inner loop of scan_junk over the entries of one template; acc.left is
\* the number of entries the scan still gets to before its deadline
RECURSIVE scan_entries(_, _, _, _, _)
scan_entries(disk, tpl, es, acc, dir_file_count) ==
    IF es = <<>> THEN acc
    ELSE IF acc.left = 0 \/ acc.total_files_scanned >= MAX_TOTAL_FILES
    THEN [acc EXCEPT !.stopped = TRUE]
    ELSE IF dir_file_count >= MAX_FILES_PER_DIR THEN acc
    ELSE LET path == Head(es)
             later == [acc EXCEPT !.left = @ - 1]
         IN  IF keeps(tpl, path) /\ len_of(disk, path) > 0
             THEN scan_entries(disk, tpl, Tail(es),
                      [later EXCEPT !.items = Append(@, ScannedItem(disk, path)),
                                    !.total_size_bytes = @ + len_of(disk, path),
                                    !.total_files_scanned = @ + 1],
                      dir_file_count + 1)
             ELSE scan_entries(disk, tpl, Tail(es), later, dir_file_count)

\* the outer loop of scan_junk, from the i-th template on; a template whose
\* directory does not exist has no entries
RECURSIVE scan_templates(_, _, _)
scan_templates(disk, i, acc) ==
    IF i > Len(JUNK_TEMPLATES) \/ acc.stopped THEN acc
    ELSE IF acc.left = 0 THEN [acc EXCEPT !.stopped = TRUE]
    ELSE LET tpl == JUNK_TEMPLATES[i]
             full == home_dir \o <<"/">> \o tpl
             es == SetToSeq(walk(disk.files, full, depth_of(tpl)))
         IN  scan_templates(disk, i + 1, scan_entries(disk, tpl, es, acc, 0))

\* is_broken_plist: the file is empty or its content is no property list
is_broken_plist(disk, p) == p \in disk.empty \/ p \in disk.invalid

\* the macOS block of scan_junk: the broken property lists of
\* ~/Library/Preferences
RECURSIVE scan_preferences(_, _, _)
scan_preferences(disk, es, acc) ==
    IF es = <<>> THEN acc
    ELSE LET p == Head(es)
         IN  IF /\ extension(file_name(p)) = s_plist
                /\ acc.total_files_scanned < MAX_TOTAL_FILES
                /\ is_broken_plist(disk, p)
             THEN scan_preferences(disk, Tail(es),
                      [acc EXCEPT !.items = Append(@, ScannedItem(disk, p)),
                                  !.total_size_bytes = @ + len_of(disk, p),
                                  !.total_files_scanned = @ + 1])
             ELSE scan_preferences(disk, Tail(es), acc)

\* scan_junk(home) on a disk, with the deadline passing after visits entries
scan_junk(disk, visits) ==
    LET start == [items |-> <<>>, total_size_bytes |-> 0, total_files_scanned |-> 0,
                  left |-> visits, stopped |-> FALSE]
        walked == scan_templates(disk, 1, start)
        prefs_dir == home_dir \o <<"/">> \o s_Library_Preferences
        done == IF walked.total_files_scanned < MAX_TOTAL_FILES /\ walked.left > 0
                THEN scan_preferences(disk,
                         SetToSeq(walk(disk.files, prefs_dir, 1)), walked)
                ELSE walked
    IN  [items |-> done.items, total_size_bytes |-> done.total_size_bytes,
         errors |-> <<>>]

MaxVisits == 2    \* entries visited before a deadline that passes early

JunkFiles ==
    {j_junk, j_ds_store, j_cookies, j_safari_history, j_safari_data,
     j_screenshot, j_desktop_note, j_installer, j_chrome_login, j_plist}

\* a deadline that does not pass during the scan: more entries than any scan
\* of the layout visits
Unhurried == Len(JUNK_TEMPLATES) * Cardinality(JunkFiles)

TheDisk == [files |-> present, empty |-> task.empty, invalid |-> task.invalid]

\* a home directory layout: some of the files exist, .DS_Store, junk.tmp and
\* the preference file possibly empty, the preference file possibly damaged
JunkInit ==
    /\ platform = "macos"
    /\ present \in SUBSET JunkFiles
    /\ \E e \in SUBSET ({j_ds_store, j_junk, j_plist} \cap present),
          i \in SUBSET ({j_plist} \cap present),
          v \in (0..MaxVisits) \cup {Unhurried} :
          task = [empty |-> e, invalid |-> i, visits |-> v]
    /\ last = [op |-> "pending", items |-> <<>>, total_size_bytes |-> 0]
    /\ locked = {}
    /\ store = NoFile
    /\ now = 0
    /\ wiped = {}
    /\ helper = "down"
    /\ sent = <<>>

ScanJunk ==
    /\ last.op = "pending"
    /\ LET result == scan_junk(TheDisk, task.visits)
       IN  last' = [op |-> "scan_junk", items |-> result.items,
                    total_size_bytes |-> result.total_size_bytes]
    /\ UNCHANGED <<platform, present, locked, store, now, wiped, helper, sent, task>>

JunkNext == ScanJunk

SpecJunk == JunkInit /\ [][JunkNext]_vars

----------------------------------------------------------------------------
(* Properties of the junk scanner                                          *)

Scanned == last.op = "scan_junk"
Offered == {last.items[i].path : i \in 1..Len(last.items)}

\* the name is on the allow-list, or is Cookies or History in any letter case
ProtectedName(name) ==
    \/ name \in whitelist
    \/ Lowered(name) \in {<<"c","o","o","k","i","e","s">>, <<"h","i","s","t","o","r","y">>}

\* the files of the layout that lie in a scanned cache directory, hold
\* something and have an ordinary name
OrdinaryCacheFiles ==
    {f \in {j_junk, j_safari_data} \cap present : f \notin task.empty}

\* C28: scan_junk never offers a file whose name is on the allow-list or is
\* Cookies or History in any letter case, whatever the layout of the home
\* directory and wherever the file lies; when the scan ran to its end, the
\* ordinary non-empty files of the cache directories are offered.
C28_AllowListNeverOffered ==
    Scanned =>
        /\ \A p \in Offered : ~ProtectedName(FileNameOf(p))
        /\ task.visits = Unhurried => OrdinaryCacheFiles \subseteq Offered

\* a scan ran to its end on a cache directory that holds a non-empty
\* .DS_Store, Cookies, HISTORY and Login Data files and ordinary files, and
\* offered the ordinary ones
C28_Witness ==
    /\ Scanned
    /\ task.visits = Unhurried
    /\ {j_ds_store, j_cookies, j_safari_history, j_chrome_login, j_junk, j_safari_data}
          \subseteq present
    /\ task.empty = {}
    /\ {j_junk, j_safari_data} \subseteq Offered
    /\ j_ds_store \notin Offered

----------------------------------------------------------------------------
(* Properties of the owner name                                            *)

SeparatorOf(path) == IF "\\" \in Range(path) THEN "\\" ELSE "/"

\* the components of a path, between its separators
RECURSIVE Components(_, _)
Components(s, sep) ==
    IF s = <<>> THEN <<>>
    ELSE IF Head(s) = sep THEN Components(Tail(s), sep)
    ELSE LET n == IF \E i \in 1..Len(s) : s[i] = sep
                  THEN (CHOOSE i \in 1..Len(s) :
                           s[i] = sep /\ \A j \in 1..(i - 1) : s[j] # sep) - 1
                  ELSE Len(s)
         IN  <<SubSeq(s, 1, n)>> \o Components(SubSeq(s, n + 1, Len(s)), sep)

\* caches, application support, logs
ContainerNames ==
    {
      <<"c","a","c","h","e","s">>,
      <<"a","p","p","l","i","c","a","t","i","o","n"," ","s","u","p","p","o","r","t">>,
      <<"l","o","g","s">>
    }

\* the components that immediately follow a container directory
Followers(path) ==
    LET cs == Components(Lowered(path), SeparatorOf(path))
    IN  {cs[i + 1] : i \in {j \in 1..(Len(cs) - 1) : cs[j] \in ContainerNames}}

\* the path matches a cache pattern and no pattern of another category
OnlyCachePattern(pl, path) ==
    /\ NamesCache(path) \/ HasInfix(Lowered(path), <<"l","o","c","a","l","s","t","o","r","a","g","e">>)
    /\ ~UnderSystemPrefix(pl, path)
    /\ ~NamesUserData(path)
    /\ ~NamesTemp(path)
    /\ ~HasInfix(Lowered(path), <<"l","o","g","s">>)
    /\ ~HasSuffix(Lowered(path), <<".","l","o","g">>)
    /\ ~HasInfix(Lowered(path), <<"a","p","p","l","i","c","a","t","i","o","n"," ","s","u","p","p","o","r","t">>)
    /\ ~HasInfix(Lowered(path), <<"a","p","p","d","a","t","a">>)

\* C27: a path that matches only a cache pattern is Cache and safe; its owner
\* is the component that immediately follows a container directory (caches,
\* application support, logs) when there is such a component, and unset when
\* there is none.
C27_OwnerFollowsContainer ==
    (Classified /\ OnlyCachePattern(platform, ThePath)) =>
        /\ TheFile.category = "Cache"
        /\ TheFile.is_safe_to_delete
        /\ IF Followers(ThePath) = {}
           THEN TheFile.app_owner = None
           ELSE TheFile.app_owner \in Followers(ThePath)

----------------------------------------------------------------------------
(* Properties of the daemon                                                *)

Closed == {c \in Conns : task[c].state = "closed"}
Wrote(c, b) == task[c].plan = ClientWrites(b)
PongBytes == <<"{", "success", "true", "message", "Pong", "}">>
IsCommandBytes(b) ==
    \/ b = <<"{", "action", "Ping", "}">>
    \/ \E p \in {p_left_prefs, p_missing, p_app} :
          \/ b = <<"{", "action", "DeletePath", "payload", "{", "path">> \o p \o <<"}", "}">>
          \/ b = <<"{", "action", "UninstallApp", "payload", "{", "bundle_path">> \o p
                    \o <<"}", "}">>
FailedResponse(b) ==
    /\ Len(b) >= 5
    /\ SubSeq(b, 1, 4) = <<"{", "success", "false", "message">>
    /\ b[Len(b)] = "}"
DeleteBytes(p) == <<"{", "action", "DeletePath", "payload", "{", "path">> \o p \o <<"}", "}">>

\* C21: once the daemon listens it goes on listening whatever happened on
\* earlier connections, and a Ping on a connection is answered with
\* {success: true, message: "Pong"} and changes nothing on the filesystem.
C21_PingAlwaysPong ==
    /\ (\E c \in Conns : task[c].state # "free") => helper = "up"
    /\ \A c \in Closed :
          Wrote(c, <<"{", "action", "Ping", "}">>) =>
              /\ task[c].reply = PongBytes
              /\ task[c].post_fs = task[c].pre_fs

\* a Ping was answered after one connection ended on bytes that are no
\* command and another on a DeletePath that failed
C21_Witness ==
    /\ helper = "up"
    /\ \E c \in Closed : Wrote(c, <<"{", "action", "Ping", "}">>) /\ task[c].reply = PongBytes
    /\ \E c \in Closed : task[c].plan.kind = "writes" /\ ~IsCommandBytes(task[c].plan.bytes)
    /\ \E c \in Closed : Wrote(c, DeleteBytes(p_missing)) /\ FailedResponse(task[c].reply)

\* C22: DeletePath for a path that does not exist is answered with a Response
\* whose success is false and whose message is not empty; it leaves the
\* filesystem as it was and the daemon listening.
C22_DeleteMissingFails ==
    \A c \in Closed :
        \A p \in {p_left_prefs, p_missing, p_app} :
            (Wrote(c, DeleteBytes(p)) /\ p \notin task[c].pre_fs) =>
                /\ FailedResponse(task[c].reply)
                /\ Len(task[c].reply) > 5
                /\ task[c].post_fs = task[c].pre_fs
                /\ helper = "up"

\* DeletePath for a file that an earlier DeletePath had removed was answered
C22_Witness ==
    \E c, d \in Closed :
        /\ c # d
        /\ Wrote(c, DeleteBytes(p_left_prefs)) /\ Wrote(d, DeleteBytes(p_left_prefs))
        /\ p_left_prefs \in task[c].pre_fs
        /\ p_left_prefs \notin task[d].pre_fs
        /\ FailedResponse(task[d].reply)

\* C23: bytes that do not decode as a Command are answered with a Response
\* whose success is false before the connection is closed.
C23_DecodeFailureAnswered ==
    \A c \in Closed :
        (task[c].plan.kind = "writes" /\ ~IsCommandBytes(task[c].plan.bytes)) =>
            FailedResponse(task[c].reply)

Stalled == {c \in Conns : task[c].state = "accepted" /\ task[c].plan.kind = "silent"}

C25_ExitsOnlyOnBindFailure ==
    helper = "exited" => last.ret.tag = "bind"

\* C26: on every connection the daemon decodes at most one Command and writes
\* at most one Response, a Response only after a Command was decoded; what it
\* wrote is one whole Response, and the client wrote at most one Command.
C26_OneCommandOneResponse ==
    \A c \in Conns :
        /\ task[c].decoded <= 1
        /\ task[c].written <= task[c].decoded
        /\ task[c].decoded = 1 => /\ task[c].plan.kind = "writes"
                                  /\ IsCommandBytes(task[c].plan.bytes)
        /\ task[c].written = 1 => task[c].state = "closed" /\ IsWholeResponse(task[c].reply)
        /\ task[c].written = 0 => task[c].reply = <<>>
        /\ task[c].state = "free" =>
              task[c].decoded = 0 /\ task[c].written = 0

\* three connections ended: one answered, one without an answer because its
\* bytes were no command, one because nothing was written on it
C26_Witness ==
    \E c, d, e \in Closed :
        /\ task[c].decoded = 1 /\ task[c].written = 1
        /\ task[c].plan.bytes # <<"{", "action", "Ping", "}">>
        /\ task[d].plan.kind = "writes" /\ task[d].decoded = 0 /\ task[d].written = 0
        /\ task[e].plan.kind = "closes" /\ task[e].written = 0

----------------------------------------------------------------------------
(* Properties of the helper client                                         *)

Elevated == {"DeletePath", "UninstallApp"}
Events(ev) == {k \in 1..Len(sent) : sent[k].ev = ev}
ElevatedSends == {k \in 1..Len(sent) : sent[k].ev \in Elevated}

\* C13: every path forwarded to the daemon in a DeletePath or UninstallApp
\* command was classified by index_file earlier in the same operation.
C13_ForwardedPathsVetted ==
    \A k \in ElevatedSends :
        \E j \in 1..(k - 1) : sent[j].ev = "index_file" /\ sent[j].path = sent[k].path

\* C14: before an operation sends DeletePath or UninstallApp to the daemon, it
\* has sent a Ping in that same operation and the Ping was answered with success.
C14_PingBeforeElevated ==
    \A k \in ElevatedSends :
        \E j \in 1..(k - 1) : sent[j].ev = "Ping" /\ sent[j].ok

\* C15: ensure_helper_installed ends after at most one installation attempt
\* and at most two Pings, never being stuck on the way; it returns true only
\* when a Ping was answered with success; when it returns false,
\* remove_extension returns an error, having sent no DeletePath and tried no
\* further removal of its own.
InEnsure == task.pc \in {"ping1", "install", "ping2"}
C15_EnsureTerminates ==
    /\ Cardinality(Events("Ping")) <= 2
    /\ Cardinality(Events("install")) <= 1
    /\ InEnsure =>
          /\ ENABLED ClientStep
          /\ Cardinality(Events("Ping")) = (IF task.pc = "ping1" THEN 0 ELSE 1)
          /\ Cardinality(Events("install")) = (IF task.pc = "ping2" THEN 1 ELSE 0)
    /\ task.ensure = "true" => \E j \in Events("Ping") : sent[j].ok
    /\ task.ensure = "false" =>
          /\ task.op = "remove_extension"
          /\ task.pc = "done"
          /\ task.ret.tag = "Err"
          /\ ElevatedSends = {}
          /\ Events("remove_file") = {1}
          /\ Events("trash") = {}
          /\ task.path \in present

\* ensure_helper_installed returned false after an installation that ran and
\* two Pings that were not answered
C15_Witness ==
    /\ task.ensure = "false"
    /\ Cardinality(Events("Ping")) = 2
    /\ \E j \in Events("install") : sent[j].ok

\* C17: uninstall_app sends a helper command for a path only right after the
\* trash removal of that very path failed; a path the trash took is never
\* sent, and every leftover is tried in the trash whatever happened to the
\* paths before it.
Uninstalling == task.op = "uninstall_app"
UninstallPaths(n) == <<task.path>> \o SubSeq(task.leftovers, 1, n)
TrashedIn(n) == [k \in 1..n |-> sent[CHOOSE j \in Events("trash") :
                                        Cardinality({m \in Events("trash") : m <= j}) = k].path]
C17_EscalateOnlyFailedPaths ==
    Uninstalling =>
        /\ \A k \in ElevatedSends :
              /\ k > 1
              /\ sent[k - 1] = Tried("trash", sent[k].path, FALSE)
              /\ sent[k].ev = (IF k = 2 THEN "UninstallApp" ELSE "DeletePath")
        /\ \A j \in Events("trash") :
              sent[j].ok => \A k \in ElevatedSends : sent[k].path # sent[j].path
        /\ Cardinality(ElevatedSends) = Cardinality({j \in Events("trash") : ~sent[j].ok})
              - (IF task.pc \in {"send_uninstall", "send_leftover"} THEN 1 ELSE 0)
        /\ (task.pc = "done" /\ task.ret.tag = "Ok") =>
              TrashedIn(Cardinality(Events("trash"))) = UninstallPaths(Len(task.leftovers))

\* an uninstall that ended with the bundle in the trash, one leftover sent to
\* the helper and one leftover in the trash
C17_Witness ==
    /\ Uninstalling
    /\ task.pc = "done"
    /\ sent[1] = Tried("trash", task.path, TRUE)
    /\ Cardinality(ElevatedSends) = 1
    /\ Cardinality({j \in Events("trash") : sent[j].ok}) = 2

----------------------------------------------------------------------------
(* Properties of the result of uninstall_app                               *)

Uninstalled == Uninstalling /\ task.pc = "done"
BundleTrashed == sent[1] = Tried("trash", task.path, TRUE)
BundleByHelper ==
    /\ Len(sent) >= 2
    /\ sent[1] = Tried("trash", task.path, FALSE)
    /\ sent[2].ev = "UninstallApp" /\ sent[2].path = task.path /\ sent[2].ok
LeftoverEvents == {k \in 1..Len(sent) : \E i \in 1..Len(task.leftovers) :
                                            sent[k].path = task.leftovers[i]}
\* leftovers that neither the trash nor the helper removed
Unremoved ==
    {i \in 1..Len(task.leftovers) :
        /\ \E k \in LeftoverEvents :
              sent[k] = Tried("trash", task.leftovers[i], FALSE)
        /\ \E k \in LeftoverEvents :
              /\ sent[k].ev = "DeletePath" /\ sent[k].path = task.leftovers[i]
              /\ ~sent[k].ok
        /\ task.leftovers[i] \in present}

\* C30: uninstall_app returns Ok exactly when the bundle was removed, by the
\* trash or by the helper, whatever happened to the leftovers; it returns an
\* error exactly when the trash refused the bundle and the helper was not
\* reached or answered success = false, and then no leftover was touched.
C30_ResultIsBundleRemoval ==
    Uninstalled =>
        /\ task.ret.tag \in {"Ok", "Err"}
        /\ task.ret.tag = "Ok" <=> (BundleTrashed \/ BundleByHelper)
        /\ task.ret.tag = "Ok" => task.path \notin present
        /\ task.ret.tag = "Err" =>
              /\ Len(sent) = 2
              /\ sent[1] = Tried("trash", task.path, FALSE)
              /\ sent[2].ev = "UninstallApp" /\ sent[2].path = task.path
              /\ ~sent[2].ok
              /\ LeftoverEvents = {}
              /\ \A i \in 1..Len(task.leftovers) : task.leftovers[i] \in present

\* the bundle went to the trash, a leftover could be removed neither by the
\* trash nor by the helper and is still on disk, and uninstall_app returned Ok
C30_Witness ==
    /\ Uninstalled
    /\ BundleTrashed
    /\ Unremoved # {}
    /\ task.ret.tag = "Ok"

\* the bundle could be removed neither by the trash nor by the helper, there
\* were leftovers, and uninstall_app returned the error
C30_WitnessErr ==
    /\ Uninstalled
    /\ task.ret.tag = "Err"
    /\ task.leftovers # <<>>

----------------------------------------------------------------------------
(* Properties of preview_delete                                            *)

Previewed == last.op = "preview_delete"

\* C11: preview_delete has no side effects: after the call, however many
\* commands ran before it, the filesystem and the persisted audit store are
\* what they were before it, and it returns one classification per input path,
\* in input order.
C11_PreviewIsPure ==
    Previewed =>
        /\ present = last.pre_present
        /\ store = last.pre_store
        /\ load(store).deletion_history = load(last.pre_store).deletion_history
        /\ load(store).system_events = load(last.pre_store).system_events
        /\ load(store).user_preferences = load(last.pre_store).user_preferences
        /\ last.ret.tag = "Ok"
        /\ Len(last.ret.value) = Len(last.paths)
        /\ \A i \in 1..Len(last.paths) :
              /\ last.ret.value[i].path = last.paths[i]
              /\ last.ret.value[i].category \in FileCategory

\* a second command previews two different paths, one of them already
\* trashed, after a deletion was recorded in the store
C11_Witness ==
    /\ Previewed
    /\ now = MaxCalls
    /\ store.exists
    /\ Len(last.paths) >= 2
    /\ last.paths[1] # last.paths[2]
    /\ last.paths[1] \notin present

----------------------------------------------------------------------------
(* Properties of the verdict across filesystem states                      *)

Verdict(f) ==
    [path |-> f.path, category |-> f.category,
     is_safe_to_delete |-> f.is_safe_to_delete, app_owner |-> f.app_owner]
VerdictsOf(files) == [i \in 1..Len(files) |-> Verdict(files[i])]
Partition(files) ==
    [safe |-> PathsOf(SelectSeq(files, VerdictSafe)),
     blocked |-> PathsOf(SelectSeq(files, VerdictUnsafe))]
Commanded == last.op \in {"preview_delete", "confirm_delete"}

\* C29: the category, safety and owner a command computed for its paths are
\* the ones index_file computes for them on every other filesystem state
\* (only size_bytes differs), and after preview_delete, whatever the disk has
\* become, confirm_delete of the same list computes the partition into safe
\* and blocked paths that the preview reported, and hands the trash the
\* safe ones.
C29_VerdictFromPathOnly ==
    Commanded =>
        \A fs \in SUBSET UniverseSet :
            /\ VerdictsOf(index_files(platform, fs, last.paths)) = VerdictsOf(last.indexed)
            /\ Previewed =>
                  LET out == confirm_delete(platform, fs, locked, store, now + 1, last.paths)
                  IN  /\ Partition(out.indexed) = Partition(last.ret.value)
                      /\ out.handed = Partition(last.ret.value).safe

\* a preview, made after a deletion had changed the disk, reported safe and
\* blocked paths, some of them on disk and some not
C29_Witness ==
    /\ Previewed
    /\ present # UniverseSet
    /\ Partition(last.ret.value).safe # <<>>
    /\ Partition(last.ret.value).blocked # <<>>
    /\ \E i, j \in 1..Len(last.paths) :
          /\ last.paths[i] \in present /\ last.paths[j] \notin present
          /\ last.ret.value[i].size_bytes > 0 /\ last.ret.value[j].size_bytes = 0

====
